---- MODULE Spec2Model ----
(***************************************************************************)
(* Cluster membership and election-timer reconciliation of the ovn-central *)
(* charm (src/lib/charm/openstack/ovn_central.py, src/actions/cluster.py). *)
(*                                                                         *)
(* The unit runs one administrative operation at a time against the        *)
(* ovsdb-server of the database the operation addresses.  `engine` is the  *)
(* state of that server; it is the environment and changes between the     *)
(* steps of the operation.  `calls` is the ordered list of the external    *)
(* invocations the operation made (what the unit tests read off their      *)
(* mocks): status queries, ovn-appctl / ovsdb-tool / ovn-*ctl commands,    *)
(* sleeps and workload status messages.                                    *)
(***************************************************************************)
EXTENDS Integers, Sequences, FiniteSets, TLC

\* -------------------------------------------------------------------------
\* Program constants
\* -------------------------------------------------------------------------
min_election_timer == 1

max_election_timer == 60

\* -------------------------------------------------------------------------
\* Bounds of the model
\* -------------------------------------------------------------------------
\* Most change-election-timer commands one call may issue in the model.
MaxCmds == 7

\* Most runs of ovsdb-tool join-cluster in one behaviour.
MaxJoinRuns == 3

\* Election timers (ms) the engine may hold when the operation starts.
InitTimers == {1000, 1500, 42000}

\* Targets (s) the operator may configure: both bounds, both neighbours
\* outside the range, and values between.
TgtTimers == {0, 1, 2, 42, 60, 61}

\* Database arguments handed to the operations; "aDb" is not a database.
DbArgs == {"nb", "sb", "aDb"}

\* Values of the Status: field of cluster/status.
StatusTexts == {"cluster member", "leaving cluster"}

\* Connection table and database files when the operation starts.
InitConnections == {{}, {6641}}

InitDbFiles == {{}, {"/var/lib/ovn/ovnnb_db.db"}}

\* port_map arguments of configure_ovn_listener, in dict order; a setting is
\* kept as the 'col=value' string SimpleOVSDB.set hands to the tool.
PortMaps ==
    { <<[port |-> 6641, settings |-> <<"inactivity_probe=42">>]>>,
      <<[port |-> 6641, settings |-> <<"inactivity_probe=42">>],
        [port |-> 6642, settings |-> <<"role=ovn-controller">>]>>,
      <<[port |-> 6642, settings |-> <<"role=ovn-controller",
                                       "inactivity_probe=60000">>]>> }

\* cluster and server_id arguments of _kick_server.
KickClusters == {"southbound", "Northbound", "foo"}

ServerIds == {"aa11", "zz99"}

\* Arguments of join_cluster: (db_file, schema_name), the connection strings,
\* and the release of the charm class.
JoinFiles ==
    { <<"ovnnb_db.db", "OVN_Northbound">>, <<"ovnsb_db.db", "OVN_Southbound">>,
      <<"/a/db.file", "aSchema">> }

LocalConns == { <<"ssl:10.0.0.1:6643">> }

RemoteConns == { <<>>, <<"ssl:10.0.0.2:6643", "ssl:10.0.0.3:6643">> }

Releases == {"train", "ussuri"}

NoStatus == [present |-> FALSE, is_cluster_leader |-> FALSE,
             election_timer |-> 0, status |-> ""]

\* tick of wait_for_server_leave (s).
tick == 5

\* timeout arguments of wait_for_server_leave (s): none, one tick, one that
\* is no multiple of the tick, and the default.
Timeouts == {0, 5, 12, 30}

\* server_ip arguments of wait_for_server_leave.
WaitIps == {"10.0.0.1", "fe80::1"}

\* Entries of OVNClusterStatus.servers: (server id, connection string).
SrvA == [id |-> "aa11", url |-> "ssl:10.0.0.1:6644"]

SrvB == [id |-> "bb22", url |-> "ssl:10.0.0.2:6644"]

SrvC == [id |-> "cc33", url |-> "ssl:fe80::1:6644"]

SrvD == [id |-> "dd44", url |-> "ssl:fe80::1:2:6644"]

ServerLists == { <<SrvA, SrvB>>, <<SrvB>>, <<SrvB, SrvC>>, <<SrvD>> }

\* No function of actions/cluster.py has been called, none has ended.
NoArg == [fn |-> ""]

NoRet == [raised |-> "", val |-> ""]

\* Addresses and ports put into connection strings "ssl:<address>:<port>";
\* "foo" and "" are no addresses.
UrlAddresses == {"10.0.0.1", "10.0.0.99", "::1", "fe80::1", "fe80::1:2", "foo", ""}

UrlPorts == {"6644", "16642"}

\* Servers a cluster-status can also list: a second server recorded at the
\* address of SrvA (the stale entry of a unit redeployed on the same
\* address), one at an address no unit has, one with a malformed address.
SrvE == [id |-> "ee55", url |-> "ssl:10.0.0.1:6644"]

SrvF == [id |-> "zz99", url |-> "ssl:10.0.0.99:6644"]

SrvG == [id |-> "0bad", url |-> "ssl:foo:6644"]

\* raw_cluster_status.servers arguments of _format_cluster_status
FormatServerLists ==
    ServerLists \cup { <<>>, <<SrvA, SrvB, SrvF>>, <<SrvA, SrvE>>, <<SrvF, SrvC, SrvA>>,
                       <<SrvB, SrvG>> }

\* cluster_ip_map arguments: the dict in insertion order, the local unit
\* first; a peer that has not published its bound-address has "".
IpMaps ==
    { <<[unit |-> "ovn-central/0", ip |-> "10.0.0.1"]>>,
      <<[unit |-> "ovn-central/0", ip |-> "10.0.0.1"],
        [unit |-> "ovn-central/1", ip |-> "10.0.0.2"]>>,
      <<[unit |-> "ovn-central/0", ip |-> "fe80::1"],
        [unit |-> "ovn-central/1", ip |-> "10.0.0.2"],
        [unit |-> "ovn-central/2", ip |-> ""]>>,
      <<[unit |-> "ovn-central/0", ip |-> "10.0.0.2"],
        [unit |-> "ovn-central/1", ip |-> "10.0.0.2"]>> }

\* A parameter of an action as the operator supplied it, or left it out.
NotSupplied == [given |-> FALSE, val |-> ""]

Supplied(v) == [given |-> TRUE, val |-> v]

SbServerIdParams == {NotSupplied, Supplied(""), Supplied("aa11")}

NbServerIdParams == {NotSupplied, Supplied(""), Supplied("bb22")}

\* hookenv.local_unit() and the units hookenv.departing_unit() may name.
local_unit == "ovn-central/0"

Units == {"ovn-central/0", "ovn-central/1", "ovn-central/2"}

\* peers.all_departed_units[unit].received["bound-address"]
BoundAddress(unit) ==
    IF unit = "ovn-central/0" THEN "10.0.0.1"
    ELSE IF unit = "ovn-central/1" THEN "10.0.0.2"
    ELSE "fe80::1"

\* Most handler invocations in one behaviour.
MaxDispatch == 3

\* Flags a unit holds when it is ready to render (a unit that has seen the
\* leader publish nb_cid and sb_cid) and when it is the leader about to
\* announce itself.
ReadyToRender ==
    {"charm.installed", "ovsdb-peer.connected", "ovsdb-peer.available",
     "certificates.connected", "certificates.available",
     "leadership.set.nb_cid", "leadership.set.sb_cid"}

ReadyToAnnounce ==
    {"charm.installed", "ovsdb-peer.connected", "ovsdb-peer.available",
     "certificates.connected", "certificates.available",
     "leadership.is_leader", "config.rendered"}

\* Flags that come and go with upgrades, configuration changes and
\* departing peers.
TransientFlags ==
    {"coordinator.granted.upgrade", "coordinator.requested.upgrade",
     "config.changed.source", "endpoint.ovsdb-peer.departed"}

InitFlagSets ==
    { b \cup x : b \in {ReadyToRender, ReadyToAnnounce}, x \in SUBSET TransientFlags }

\* What wait_for_server_leave holds of a cluster before its first poll, and
\* what cluster_status hands it when the status cannot be obtained (None).
NoServers == [present |-> FALSE, servers |-> <<>>]

\* What one cluster_status query of wait_for_server_leave can return.
PollResults ==
    {NoServers} \cup { [present |-> TRUE, servers |-> l] : l \in ServerLists }

VARIABLES
    engine,       \* the addressed ovsdb-server: up, leader, status, timer, pending
    pc,           \* position of the running operation
    op,           \* name of the running operation
    db,           \* its db argument
    tgt_secs,     \* its tgt_timer argument as passed, in seconds
    tgt_timer,    \* target in ms (after the * 1000 conversion)
    cur_timer,    \* local cur_timer
    change_timer, \* local change_timer
    change_op,    \* "mul" or "floordiv"
    status,       \* local status: the latest snapshot, or NoStatus for None
    calls,        \* external invocations made so far, in order
    raised,       \* exception that left the operation, "" if none
    log_error,    \* an ERROR level message was logged
    start_timer,  \* history: the timer shown by the first status query
    live_at_cmd,  \* history: engine timer / leadership when the last command was sent
    lockstep,     \* history: every query so far showed leader and the value last commanded
    db_files,     \* absolute paths of the OVSDB files that exist on disk
    connections,  \* ports that have a row in the Connection table of the addressed database
    joined,       \* history: paths on which ovsdb-tool join-cluster succeeded, in order
    logs,         \* messages handed to hookenv.log by leave_cluster and the handlers
    timeout,      \* wait_for_server_leave: its timeout argument (s)
    server_ip,    \* wait_for_server_leave: its server_ip argument
    timer,        \* wait_for_server_leave: local timer (s)
    unit_in_sb_cluster, \* wait_for_server_leave: local
    unit_in_nb_cluster, \* wait_for_server_leave: local
    servers_left, \* wait_for_server_leave: local, the value returned
    sb_status,    \* history: the latest Southbound snapshot the call obtained
    nb_status,    \* history: the latest Northbound snapshot the call obtained
    rounds,       \* history: polling rounds started by the call
    sb_always_listed, \* history: every Southbound poll so far listed the address
    nb_always_listed, \* history: every Northbound poll so far listed the address
    flags,        \* reactive flags set on the unit
    hlog,         \* charm methods invoked by the handlers so far, in order
    given_server_id, \* _kick_server: the server id given
    action_params, \* cluster_kick: the parameters sb-server-id and nb-server-id as supplied
    results,      \* action_set and action_fail calls so far, in order
    fn_arg,       \* the arguments of the running function of actions/cluster.py
    fn_ret,       \* what that function returned or raised
    snap_installed \* whether the snap prometheus-ovn-exporter is installed on the unit

waitVars == <<timeout, server_ip, timer, unit_in_sb_cluster, unit_in_nb_cluster,
              servers_left, sb_status, nb_status, rounds, sb_always_listed,
              nb_always_listed>>

reactiveVars == <<flags, hlog>>

actionVars == <<given_server_id, action_params, results, fn_arg, fn_ret,
               snap_installed>>

vars == <<engine, pc, op, db, tgt_secs, tgt_timer, cur_timer, change_timer, change_op,
          status, calls, raised, log_error, start_timer, live_at_cmd, lockstep,
          db_files, connections, joined, logs, waitVars, reactiveVars, actionVars>>

\* -------------------------------------------------------------------------
\* Recorded external invocations
\* -------------------------------------------------------------------------
EvStatus(ovn_db) ==
    [ev |-> "cluster_status", db |-> ovn_db, cmd |-> "cluster/status",
     schema |-> "", val |-> 0, arg |-> "", args |-> <<>>]

EvAppctl(ovn_db, cmd, schema, val, arg) ==
    [ev |-> "ovn_appctl", db |-> ovn_db, cmd |-> cmd,
     schema |-> schema, val |-> val, arg |-> arg, args |-> <<>>]

EvSleep(ms) ==
    [ev |-> "sleep", db |-> "", cmd |-> "", schema |-> "", val |-> ms, arg |-> "",
     args |-> <<>>]

EvStatusSet(ovn_schema, ms) ==
    [ev |-> "status_set", db |-> "", cmd |-> "maintenance",
     schema |-> ovn_schema, val |-> ms, arg |-> "", args |-> <<>>]

\* 'ovn{}_db'.format(db)
OvnDb(d) == IF d = "nb" THEN "ovnnb_db" ELSE IF d = "sb" THEN "ovnsb_db" ELSE "ovn" \o d \o "_db"

\* 'OVN_Northbound' if db == 'nb' else 'OVN_Southbound'
OvnSchema(d) == IF d = "nb" THEN "OVN_Northbound" ELSE "OVN_Southbound"

\* BaseOVNCentralCharm.cluster_status: the parsed snapshot, or None when the
\* control command fails (ovsdb-server not ready).
cluster_status(e) ==
    IF e.up
    THEN [present |-> TRUE, is_cluster_leader |-> e.leader,
          election_timer |-> e.election_timer, status |-> e.status]
    ELSE NoStatus

\* Variants: the increase is not clipped to the target; the halving rounds up.
NextTimerNoClip(cop, cur, tgt) ==
    IF cop = "mul"
    THEN cur * 2
    ELSE (IF cur \div 2 > tgt THEN cur \div 2 ELSE tgt)

NextTimerCeilHalf(cop, cur, tgt) ==
    IF cop = "mul"
    THEN (IF cur * 2 < tgt THEN cur * 2 ELSE tgt)
    ELSE (IF (cur + 1) \div 2 > tgt THEN (cur + 1) \div 2 ELSE tgt)

\* operator.mul / operator.floordiv with min / max as change_select
NextTimer(cop, cur, tgt) ==
    IF cop = "mul"
    THEN (IF cur * 2 < tgt THEN cur * 2 ELSE tgt)
    ELSE (IF cur \div 2 > tgt THEN cur \div 2 ELSE tgt)

\* Variant: the bounds themselves are rejected.
InvalidTargetStrict(t) == t >= max_election_timer \/ t <= min_election_timer

\* tgt_timer > self.max_election_timer or tgt_timer < self.min_election_timer
InvalidTarget(t) == t > max_election_timer \/ t < min_election_timer

\* Variant: the pause covers the new value only.
SleepMsNextOnly(cur, chg) == chg

\* time.sleep((cur_timer + change_timer) / 1000): the pause, kept in ms
\* (1000 times the seconds handed to time.sleep), so no fraction is lost.
SleepMs(cur, chg) == cur + chg

\* Variant: any status that was returned counts.
IsLeaderStatusPresentOnly(st) == st.present

\* status and status.is_cluster_leader
IsLeaderStatus(st) == st.present /\ st.is_cluster_leader

\* Variants: the loop goes on at the target; on a status that does not show
\* the leader; on any status, missing ones included.
LoopConditionNoTarget(st, tgt) == st.present /\ st.is_cluster_leader

LoopConditionNoLeader(st, tgt) == st.present /\ st.election_timer # tgt

LoopConditionTimerOnly(st, tgt) == st.election_timer # tgt

\* while status and status.is_cluster_leader and status.election_timer != tgt_timer
LoopCondition(st, tgt) ==
    st.present /\ st.is_cluster_leader /\ st.election_timer # tgt

\* The ovsdb-server as the docstring of configure_ovsdb_election_timer and
\* the callers of ch_ovn.ovn_appctl describe it.  It must refuse (and
\* ovn_appctl then raises CalledProcessError) a change on a server that is
\* not running or not the leader, a change while another one is pending,
\* and an increase beyond 2x.  A decrease beyond 2x it may refuse (the
\* docstring) or accept (the fake engine of the unit test, which takes
\* 2625 -> 1312).
MustRefuse(e, val) ==
    \/ ~e.up
    \/ ~e.leader
    \/ e.pending # 0
    \/ val > 2 * e.election_timer

MayRefuse(e, val) == MustRefuse(e, val) \/ e.election_timer > 2 * val

Running == pc \in {"status0", "status", "cmd", "sleep"}

TypeOK ==
    /\ pc \in {"idle", "status0", "status", "cmd", "sleep", "returned", "raised",
              "w_loop", "w_sb", "w_nb", "w_check", "dispatch"}
    /\ raised \in {"", "ValueError", "CalledProcessError", "AttributeError",
                  "FileNotFoundError", "StatusParsingException"}
    /\ log_error \in BOOLEAN
    /\ lockstep \in BOOLEAN
    /\ snap_installed \in BOOLEAN

Init ==
    /\ engine \in [up : BOOLEAN, leader : BOOLEAN, status : StatusTexts,
                   election_timer : InitTimers, pending : {0}]
    /\ pc = "idle"
    /\ op = ""
    /\ db = ""
    /\ tgt_secs = 0
    /\ tgt_timer = 0
    /\ cur_timer = 0
    /\ change_timer = 0
    /\ change_op = ""
    /\ status = NoStatus
    /\ calls = <<>>
    /\ raised = ""
    /\ log_error = FALSE
    /\ start_timer = 0
    /\ live_at_cmd = [timer |-> 0, leader |-> FALSE]
    /\ lockstep = TRUE
    /\ db_files \in InitDbFiles
    /\ connections \in InitConnections
    /\ joined = <<>>
    /\ logs = <<>>
    /\ timeout = 0
    /\ server_ip = ""
    /\ timer = 0
    /\ unit_in_sb_cluster = TRUE
    /\ unit_in_nb_cluster = TRUE
    /\ servers_left = FALSE
    /\ sb_status = NoServers
    /\ nb_status = NoServers
    /\ rounds = 0
    /\ sb_always_listed = TRUE
    /\ nb_always_listed = TRUE
    /\ flags = {}
    /\ hlog = <<>>
    /\ given_server_id = ""
    /\ action_params = [sb |-> NotSupplied, nb |-> NotSupplied]
    /\ results = <<>>
    /\ fn_arg = NoArg
    /\ snap_installed = FALSE
    /\ fn_ret = NoRet

\* configure_ovsdb_election_timer, entry: argument validation and the ms
\* conversion.
ConfigureOvsdbElectionTimer(d, t) ==
    /\ pc = "idle"
    /\ op' = "configure_ovsdb_election_timer"
    /\ db' = d
    /\ tgt_secs' = t
    /\ IF d \notin {"nb", "sb"}
       THEN /\ raised' = "ValueError"
            /\ pc' = "raised"
            /\ UNCHANGED <<tgt_timer, log_error>>
       ELSE IF InvalidTarget(t)
       THEN /\ log_error' = TRUE
            /\ pc' = "returned"
            /\ UNCHANGED <<tgt_timer, raised>>
       ELSE /\ tgt_timer' = t * 1000
            /\ pc' = "status0"
            /\ UNCHANGED <<raised, log_error>>
    /\ UNCHANGED <<engine, cur_timer, change_timer, change_op, status, calls,
                   start_timer, live_at_cmd, lockstep,
                   db_files, connections>>
    /\ UNCHANGED <<joined, logs, waitVars, reactiveVars, actionVars>>

\* The first status query, the leader and already-at-target tests and the
\* choice of the direction.
FirstStatus ==
    /\ pc = "status0"
    /\ LET st == cluster_status(engine) IN
       /\ status' = st
       /\ calls' = Append(calls, EvStatus(OvnDb(db)))
       /\ lockstep' = (st.present /\ st.is_cluster_leader)
       /\ IF IsLeaderStatus(st)
          THEN /\ cur_timer' = st.election_timer
               /\ start_timer' = st.election_timer
               /\ IF tgt_timer = st.election_timer
                  THEN pc' = "returned" /\ UNCHANGED change_op
                  ELSE /\ change_op' = IF tgt_timer > st.election_timer
                                       THEN "mul" ELSE "floordiv"
                       /\ pc' = IF LoopCondition(st, tgt_timer)
                                THEN "cmd" ELSE "returned"
          ELSE /\ pc' = "returned"
               /\ UNCHANGED <<cur_timer, start_timer, change_op>>
    /\ UNCHANGED <<engine, op, db, tgt_secs, tgt_timer, change_timer, raised, log_error,
                   live_at_cmd,
                   db_files, connections>>
    /\ UNCHANGED <<joined, logs, waitVars, reactiveVars, actionVars>>

\* Loop body up to and including the ovn_appctl call.
ChangeElectionTimer ==
    /\ pc = "cmd"
    /\ Len(SelectSeq(calls, LAMBDA c : c.ev = "ovn_appctl")) < MaxCmds
    /\ LET val == NextTimer(change_op, cur_timer, tgt_timer) IN
       /\ change_timer' = val
       /\ calls' = calls \o
            <<EvStatusSet(OvnSchema(db), val),
              EvAppctl(OvnDb(db), "cluster/change-election-timer",
                       OvnSchema(db), val, "")>>
       /\ live_at_cmd' = [timer |-> engine.election_timer,
                          leader |-> engine.leader]
       /\ \/ /\ ~MustRefuse(engine, val)
             /\ engine' = [engine EXCEPT !.pending = val]
             /\ pc' = "sleep"
             /\ UNCHANGED raised
          \/ /\ MayRefuse(engine, val)
             /\ pc' = "raised"
             /\ raised' = "CalledProcessError"
             /\ UNCHANGED engine
    /\ UNCHANGED <<op, db, tgt_secs, tgt_timer, cur_timer, change_op, status, log_error,
                   start_timer, lockstep,
                   db_files, connections>>
    /\ UNCHANGED <<joined, logs, waitVars, reactiveVars, actionVars>>

\* time.sleep((cur_timer + change_timer) / 1000); cur_timer = change_timer
Sleep ==
    /\ pc = "sleep"
    /\ calls' = Append(calls, EvSleep(SleepMs(cur_timer, change_timer)))
    /\ cur_timer' = change_timer
    /\ pc' = "status"
    /\ UNCHANGED <<engine, op, db, tgt_secs, tgt_timer, change_timer, change_op, status,
                   raised, log_error, start_timer, live_at_cmd, lockstep,
                   db_files, connections>>
    /\ UNCHANGED <<joined, logs, waitVars, reactiveVars, actionVars>>

\* status = self.cluster_status(ovn_db) at the end of the loop body, and the
\* loop test that follows it.
LoopStatus ==
    /\ pc = "status"
    /\ LET st == cluster_status(engine) IN
       /\ status' = st
       /\ calls' = Append(calls, EvStatus(OvnDb(db)))
       /\ lockstep' = (lockstep /\ st.present /\ st.is_cluster_leader
                        /\ st.election_timer = cur_timer)
       /\ pc' = IF LoopCondition(st, tgt_timer) THEN "cmd" ELSE "returned"
    /\ UNCHANGED <<engine, op, db, tgt_secs, tgt_timer, cur_timer, change_timer,
                   change_op, raised, log_error, start_timer, live_at_cmd,
                   db_files, connections>>
    /\ UNCHANGED <<joined, logs, waitVars, reactiveVars, actionVars>>


\* ---- configure_ovn_listener ---------------------------------------------
EvTool(ev, tool, cmd, table, port, setting) ==
    [ev |-> ev, db |-> tool, cmd |-> cmd, schema |-> table, val |-> port,
     arg |-> setting, args |-> <<>>]

\* 'ovn-{}ctl'.format(db)
CtlTool(d) == "ovn-" \o d \o "ctl"

\* '{}_Global'.format(db.upper())
GlobalTable(d) == IF d = "nb" THEN "NB_Global" ELSE "SB_Global"

\* connections.set(uuid, k, v) for every setting of one port
RECURSIVE SetCalls(_, _, _)
SetCalls(d, port, settings) ==
    IF settings = <<>> THEN <<>>
    ELSE <<EvTool("set", CtlTool(d), "set", "connection", port, Head(settings))>>
         \o SetCalls(d, port, Tail(settings))

\* Variant: the find never returns a row.
ListenerFoundNever(port, conns) == FALSE

\* for connection in connections.find('target="pssl:{}"'.format(port)): break
\* a row with that target exists
ListenerFound(port, conns) == port \in conns

\* The body of `for port, settings in port_map.items()`: find the listener,
\* create it when the find returned no row, find it again and set every
\* setting on it.
RECURSIVE ListenerCalls(_, _, _)
ListenerCalls(d, port_map, conns) ==
    IF port_map = <<>> THEN <<>>
    ELSE LET e == Head(port_map)
             find == EvTool("find", CtlTool(d), "find", "connection", e.port, "")
             create == EvTool("run", CtlTool(d), "create connection",
                              GlobalTable(d), e.port, "")
         IN  (IF ListenerFound(e.port, conns) THEN <<find>> ELSE <<find, create>>)
             \o <<find>>
             \o SetCalls(d, e.port, e.settings)
             \o ListenerCalls(d, Tail(port_map), conns \cup {e.port})

IsWrite(c) == c.ev \in {"run", "set"}

\* configure_ovn_listener(db, port_map).  Any of the tool invocations may
\* fail with CalledProcessError: n of them are attempted and the n-th one
\* either is the last and succeeds, or fails and ends the call.
ConfigureOvnListener(d, port_map) ==
    /\ \/ pc = "idle"
       \/ op = "configure_ovn_listener" /\ pc \in {"returned", "raised"}
    /\ op' = "configure_ovn_listener"
    /\ db' = d
    /\ IF d \notin {"nb", "sb"}
       THEN /\ raised' = "ValueError"
            /\ pc' = "raised"
            /\ calls' = <<>>
            /\ status' = NoStatus
            /\ UNCHANGED <<connections, live_at_cmd>>
       ELSE LET st == cluster_status(engine)
                all == IF IsLeaderStatus(st)
                       THEN ListenerCalls(d, port_map, connections) ELSE <<>>
            IN  /\ status' = st
                /\ live_at_cmd' = [timer |-> engine.election_timer,
                                   leader |-> engine.leader]
                /\ IF all = <<>>
                   THEN /\ calls' = <<EvStatus(OvnDb(d))>>
                        /\ pc' = "returned"
                        /\ UNCHANGED <<raised, connections>>
                   ELSE \E n \in 1..Len(all), ok \in BOOLEAN :
                           /\ ok => n = Len(all)
                           /\ calls' = <<EvStatus(OvnDb(d))>> \o SubSeq(all, 1, n)
                           /\ pc' = IF ok THEN "returned" ELSE "raised"
                           /\ raised' = IF ok THEN "" ELSE "CalledProcessError"
                           /\ connections' = connections \cup
                                 {all[i].val :
                                    i \in {j \in 1..(IF ok THEN n ELSE n - 1) :
                                              all[j].ev = "run"}}
    /\ UNCHANGED <<engine, tgt_secs, tgt_timer, cur_timer, change_timer,
                   change_op, log_error, start_timer, lockstep, db_files>>
    /\ UNCHANGED <<joined, logs, waitVars, reactiveVars, actionVars>>

\* ---- _kick_server -------------------------------------------------------
\* cluster.lower(), on the cluster names the model hands in
\* Variant: the cluster name is compared as given.
LowerNot(c) == c

Lower(c) ==
    IF c = "Northbound" THEN "northbound"
    ELSE IF c = "SOUTHBOUND" THEN "southbound"
    ELSE c

\* _kick_server(cluster, server_id): one cluster/kick; ovn_appctl raises
\* CalledProcessError when the server cannot be reached and may raise it
\* for any other refusal (an unknown member id).
KickServer(cluster, server_id) ==
    /\ pc = "idle"
    /\ op' = "_kick_server"
    /\ db' = cluster
    /\ given_server_id' = server_id
    /\ IF Lower(cluster) \notin {"southbound", "northbound"}
       THEN /\ raised' = "ValueError"
            /\ pc' = "raised"
            /\ UNCHANGED <<calls, live_at_cmd>>
       ELSE /\ calls' =
                 <<IF Lower(cluster) = "southbound"
                   THEN EvAppctl("ovnsb_db", "cluster/kick", "OVN_Southbound",
                                 0, server_id)
                   ELSE EvAppctl("ovnnb_db", "cluster/kick", "OVN_Northbound",
                                 0, server_id)>>
            /\ live_at_cmd' = [timer |-> engine.election_timer,
                               leader |-> engine.leader]
            /\ \/ engine.up /\ pc' = "returned" /\ raised' = ""
               \/ pc' = "raised" /\ raised' = "CalledProcessError"
    /\ UNCHANGED <<engine, tgt_secs, tgt_timer, cur_timer, change_timer,
                   change_op, status, log_error, start_timer, lockstep,
                   db_files, connections>>
    /\ UNCHANGED <<joined, logs, waitVars, reactiveVars, action_params, results,
                   fn_arg, fn_ret, snap_installed>>

\* ---- join_cluster -------------------------------------------------------
\* os.path.join(dir, db_file): an absolute db_file replaces the directory.
PathJoin(dir, f) == IF f = "/a/db.file" THEN f ELSE dir \o "/" \o f

AbsolutePath(release, f) ==
    IF release = "train"
    THEN PathJoin("/var/lib/openvswitch", f)
    ELSE PathJoin("/var/lib/ovn", f)

\* Variant: the file is never seen on disk.
PathExistsNever(absolute_path, files) == FALSE

\* os.path.exists(absolute_path)
PathExists(absolute_path, files) == absolute_path \in files

\* cmd = ['ovsdb-tool', 'join-cluster', absolute_path, schema_name] extended
\* by the local and then the remote connection strings
JoinCmd(absolute_path, schema_name, local_conn, remote_conn) ==
    [ev |-> "run", db |-> "ovsdb-tool", cmd |-> "join-cluster",
     schema |-> schema_name, val |-> 0, arg |-> absolute_path,
     args |-> local_conn \o remote_conn]

\* join_cluster(db_file, schema_name, local_conn, remote_conn): nothing when
\* the file exists; otherwise one ovsdb-tool join-cluster, which creates the
\* file or fails with CalledProcessError.
\* A behaviour may call it again and again for the same database file.
JoinCluster(release, db_file, schema_name, local_conn, remote_conn) ==
    /\ \/ pc = "idle"
       \/ op = "join_cluster" /\ db = db_file /\ pc \in {"returned", "raised"}
    /\ op' = "join_cluster"
    /\ db' = db_file
    /\ LET absolute_path == AbsolutePath(release, db_file) IN
       IF PathExists(absolute_path, db_files)
       THEN /\ pc' = "returned"
            /\ raised' = ""
            /\ UNCHANGED <<calls, db_files, live_at_cmd, joined>>
       ELSE /\ Len(calls) < MaxJoinRuns
            /\ calls' = Append(calls, JoinCmd(absolute_path, schema_name,
                                              local_conn, remote_conn))
            /\ live_at_cmd' = [timer |-> engine.election_timer,
                               leader |-> engine.leader]
            /\ \/ /\ pc' = "returned"
                  /\ raised' = ""
                  /\ db_files' = db_files \cup {absolute_path}
                  /\ joined' = Append(joined, absolute_path)
               \/ /\ pc' = "raised"
                  /\ raised' = "CalledProcessError"
                  /\ UNCHANGED <<db_files, joined>>
    /\ UNCHANGED <<engine, tgt_secs, tgt_timer, cur_timer, change_timer,
                   change_op, status, log_error, start_timer, lockstep,
                   connections>>
    /\ UNCHANGED <<logs, waitVars, reactiveVars, actionVars>>

\* wait_for_server_leave and leave_cluster read neither the engine record,
\* nor the Connection table, nor the database files; they are started from
\* one such state.
WorldUnread ==
    /\ engine = [up |-> TRUE, leader |-> TRUE, status |-> "cluster member",
                 election_timer |-> 1000, pending |-> 0]
    /\ connections = {}
    /\ db_files = {}

\* ---- leave_cluster -------------------------------------------------------
\* How one ch_ovn.ovn_appctl call of leave_cluster can end: the command
\* succeeds; it exits non-zero (the server refuses, or its control socket
\* is not there), which subprocess reports as CalledProcessError; or the
\* control utility cannot be executed at all, which subprocess reports as
\* FileNotFoundError, an OSError and no CalledProcessError.
AppctlOutcomes == {"ok", "CalledProcessError", "FileNotFoundError"}

EvLog(level, msg) == [level |-> level, msg |-> msg]

\* One try block of leave_cluster on what the call has done so far (acc):
\* the INFO message, the cluster/leave command, and the ERROR message of
\* the except clause, which catches CalledProcessError only.
LeaveAttempt(name, ovn_db, schema, outcome, acc) ==
    IF acc.raised # "" THEN acc
    ELSE [calls |-> Append(acc.calls, EvAppctl(ovn_db, "cluster/leave", schema, 0, "")),
          logs |-> acc.logs
                   \o <<EvLog("INFO", "Removing self from " \o name \o " cluster")>>
                   \o (IF outcome = "CalledProcessError"
                       THEN <<EvLog("ERROR", "Failed to leave " \o name
                                             \o " cluster. You can use 'cluster-kick'")>>
                       ELSE <<>>),
          raised |-> IF outcome = "FileNotFoundError" THEN outcome ELSE ""]

\* leave_cluster(): Southbound, then Northbound.
leave_cluster(o_sb, o_nb, acc) ==
    LeaveAttempt("Northbound", "ovnnb_db", "OVN_Northbound", o_nb,
        LeaveAttempt("Southbound", "ovnsb_db", "OVN_Southbound", o_sb, acc))

LeaveCluster(o_sb, o_nb) ==
    /\ pc = "idle"
    /\ WorldUnread
    /\ op' = "leave_cluster"
    /\ LET r == leave_cluster(o_sb, o_nb, [calls |-> calls, logs |-> logs, raised |-> ""]) IN
          /\ calls' = r.calls
          /\ logs' = r.logs
          /\ raised' = r.raised
          /\ pc' = IF r.raised = "" THEN "returned" ELSE "raised"
    /\ UNCHANGED <<engine, db, tgt_secs, tgt_timer, cur_timer, change_timer,
                   change_op, status, log_error, start_timer, live_at_cmd,
                   lockstep, db_files, connections, joined, waitVars,
                   reactiveVars, actionVars>>

\* ---- is_server_in_cluster, wait_for_server_leave --------------------------
\* remote_unit_url = "ssl:{}:".format(server_ip)
remote_unit_url(ip) == "ssl:" \o ip \o ":"

\* url.startswith(remote_unit_url)
StartsWithUrl(url, ip) ==
    /\ Len(url) >= Len(remote_unit_url(ip))
    /\ SubSeq(url, 1, Len(remote_unit_url(ip))) = remote_unit_url(ip)

\* Variant: a status never lists the address.
is_server_in_clusterNever(ip, st) == FALSE

\* is_server_in_cluster(server_ip, cluster_status), for a status that is
\* not None (None has no attribute servers: AttributeError).
is_server_in_cluster(ip, st) ==
    \E i \in 1..Len(st.servers) : StartsWithUrl(st.servers[i].url, ip)

\* Variant: one more round when the timer has reached the timeout.
WaitConditionInclusive(tm, to) == tm <= to

\* while timer < timeout
WaitCondition(tm, to) == tm < to

\* Variant: a cluster is polled whether or not it has cleared.
StillPendingAlways(unit_in_cluster) == TRUE

\* if unit_in_sb_cluster: / if unit_in_nb_cluster:
StillPending(unit_in_cluster) == unit_in_cluster

\* Variant: the call never notices that both clusters have cleared.
BothClearedNever(in_sb, in_nb) == FALSE

\* if not unit_in_sb_cluster and not unit_in_nb_cluster:
BothCleared(in_sb, in_nb) == ~in_sb /\ ~in_nb

WaitUnchangedRest ==
    UNCHANGED <<engine, op, db, tgt_secs, tgt_timer, cur_timer, change_timer,
                change_op, status, log_error, start_timer, live_at_cmd,
                lockstep, db_files, connections, joined, reactiveVars, actionVars>>

\* wait_for_server_leave(server_ip, timeout), entry: the locals.
WaitForServerLeave(ip, t) ==
    /\ pc = "idle"
    /\ WorldUnread
    /\ op' = "wait_for_server_leave"
    /\ pc' = "w_loop"
    /\ server_ip' = ip
    /\ timeout' = t
    /\ timer' = 0
    /\ unit_in_sb_cluster' = TRUE
    /\ unit_in_nb_cluster' = TRUE
    /\ servers_left' = FALSE
    /\ UNCHANGED <<calls, raised, logs, sb_status, nb_status, rounds,
                   sb_always_listed, nb_always_listed>>
    /\ UNCHANGED <<engine, db, tgt_secs, tgt_timer, cur_timer, change_timer,
                   change_op, status, log_error, start_timer, live_at_cmd,
                   lockstep, db_files, connections, joined, reactiveVars, actionVars>>

\* while timer < timeout; otherwise return servers_left
WaitLoop ==
    /\ pc = "w_loop"
    /\ IF WaitCondition(timer, timeout)
       THEN pc' = "w_sb" /\ rounds' = rounds + 1
       ELSE pc' = "returned" /\ UNCHANGED rounds
    /\ UNCHANGED <<calls, raised, logs, timeout, server_ip, timer,
                   unit_in_sb_cluster, unit_in_nb_cluster, servers_left,
                   sb_status, nb_status, sb_always_listed, nb_always_listed>>
    /\ WaitUnchangedRest

\* if unit_in_sb_cluster: log, query ovnsb_db, is_server_in_cluster
WaitPollSb(st) ==
    /\ pc = "w_sb"
    /\ IF StillPending(unit_in_sb_cluster)
       THEN /\ logs' = Append(logs, EvLog("INFO", "Waiting to leave Southbound cluster"))
            /\ calls' = Append(calls, EvStatus("ovnsb_db"))
            /\ sb_status' = st
            /\ IF st.present
               THEN /\ unit_in_sb_cluster' = is_server_in_cluster(server_ip, st)
                    /\ sb_always_listed' =
                          (sb_always_listed /\ is_server_in_cluster(server_ip, st))
                    /\ pc' = "w_nb"
                    /\ UNCHANGED raised
               ELSE /\ raised' = "AttributeError"
                    /\ pc' = "raised"
                    /\ UNCHANGED <<unit_in_sb_cluster, sb_always_listed>>
       ELSE /\ st = NoServers
            /\ pc' = "w_nb"
            /\ UNCHANGED <<logs, calls, sb_status, unit_in_sb_cluster,
                           sb_always_listed, raised>>
    /\ UNCHANGED <<timeout, server_ip, timer, unit_in_nb_cluster,
                   servers_left, nb_status, rounds, nb_always_listed>>
    /\ WaitUnchangedRest

\* if unit_in_nb_cluster: log, query ovnnb_db, is_server_in_cluster
WaitPollNb(st) ==
    /\ pc = "w_nb"
    /\ IF StillPending(unit_in_nb_cluster)
       THEN /\ logs' = Append(logs, EvLog("INFO", "Waiting to leave Northbound cluster"))
            /\ calls' = Append(calls, EvStatus("ovnnb_db"))
            /\ nb_status' = st
            /\ IF st.present
               THEN /\ unit_in_nb_cluster' = is_server_in_cluster(server_ip, st)
                    /\ nb_always_listed' =
                          (nb_always_listed /\ is_server_in_cluster(server_ip, st))
                    /\ pc' = "w_check"
                    /\ UNCHANGED raised
               ELSE /\ raised' = "AttributeError"
                    /\ pc' = "raised"
                    /\ UNCHANGED <<unit_in_nb_cluster, nb_always_listed>>
       ELSE /\ st = NoServers
            /\ pc' = "w_check"
            /\ UNCHANGED <<logs, calls, nb_status, unit_in_nb_cluster,
                           nb_always_listed, raised>>
    /\ UNCHANGED <<timeout, server_ip, timer, unit_in_sb_cluster,
                   servers_left, sb_status, rounds, sb_always_listed>>
    /\ WaitUnchangedRest

\* both cleared: servers_left = True, log, break and return; otherwise
\* time.sleep(tick) and timer += tick
WaitCheck ==
    /\ pc = "w_check"
    /\ IF BothCleared(unit_in_sb_cluster, unit_in_nb_cluster)
       THEN /\ servers_left' = TRUE
            /\ logs' = Append(logs, EvLog("INFO", "servers left Northbound and Southbound OVN clusters"))
            /\ pc' = "returned"
            /\ UNCHANGED <<calls, timer>>
       ELSE /\ calls' = Append(calls, EvSleep(tick * 1000))
            /\ timer' = timer + tick
            /\ pc' = "w_loop"
            /\ UNCHANGED <<servers_left, logs>>
    /\ UNCHANGED <<raised, timeout, server_ip, unit_in_sb_cluster,
                   unit_in_nb_cluster, sb_status, nb_status, rounds,
                   sb_always_listed, nb_always_listed>>
    /\ WaitUnchangedRest

\* ---- the actions (actions/cluster.py) -------------------------------------
\* Position of the first ":" in s, 0 if there is none.
FirstColon(s) ==
    IF \E i \in 1..Len(s) : SubSeq(s, i, i) = ":"
    THEN CHOOSE i \in 1..Len(s) :
            /\ SubSeq(s, i, i) = ":"
            /\ \A j \in 1..(i - 1) : SubSeq(s, j, j) # ":"
    ELSE 0

\* s.split(":")
RECURSIVE Split(_)
Split(s) ==
    IF FirstColon(s) = 0 THEN <<s>>
    ELSE <<SubSeq(s, 1, FirstColon(s) - 1)>>
            \o Split(SubSeq(s, FirstColon(s) + 1, Len(s)))

\* sep.join(parts)
RECURSIVE Join(_, _)
Join(sep, parts) ==
    IF parts = <<>> THEN ""
    ELSE IF Len(parts) = 1 THEN parts[1]
    ELSE parts[1] \o sep \o Join(sep, Tail(parts))

\* The addresses ch_ip.is_ip accepts among the strings the model forms.
ValidIps == {"10.0.0.1", "10.0.0.2", "10.0.0.99", "::1", "fe80::1", "fe80::1:2"}

\* Variant: every string counts as an address.
is_ipAny(ip_str) == TRUE

is_ip(ip_str) == ip_str \in ValidIps

\* ip_portion = cluster_url.split(":")[1:-1]
ip_portion(cluster_url) ==
    SubSeq(Split(cluster_url), 2, Len(Split(cluster_url)) - 1)

\* Variant: the parts of an IPv6 address are joined without colons.
ip_strNoColons(portion) == Join("", portion)

\* ip_str: ":".join(ip_portion) for more than one part, "".join otherwise
ip_str(portion) ==
    IF Len(portion) > 1 THEN Join(":", portion) ELSE Join("", portion)

\* _url_to_ip(cluster_url): the address, or StatusParsingException
url_to_ip(cluster_url) ==
    LET ip == ip_str(ip_portion(cluster_url)) IN
    IF ~is_ip(ip)
    THEN [raised |-> "StatusParsingException", val |-> ""]
    ELSE [raised |-> "", val |-> ip]

\* hookenv.action_get(name): the value supplied, or the default the action
\* declares for the parameter, the empty string.
action_get(param) == IF param.given THEN param.val ELSE ""

\* str(..) of a parameter value that is a string
Str(v) == v

ActionSet(key, msg, id) ==
    [fn |-> "action_set", key |-> key, msg |-> msg, id |-> id, output |-> ""]

ActionFail(msg, id, output) ==
    [fn |-> "action_fail", key |-> "", msg |-> msg, id |-> id, output |-> output]

\* _kick_server inside an action, on what the action has done so far;
\* outcome is how ovn_appctl ends.
kick_server(cluster, server_id, outcome, acc) ==
    IF Lower(cluster) \notin {"southbound", "northbound"}
    THEN [acc EXCEPT !.raised = "ValueError"]
    ELSE [acc EXCEPT
            !.calls = Append(acc.calls,
                IF Lower(cluster) = "southbound"
                THEN EvAppctl("ovnsb_db", "cluster/kick", "OVN_Southbound", 0, server_id)
                ELSE EvAppctl("ovnnb_db", "cluster/kick", "OVN_Northbound", 0, server_id)),
            !.raised = IF outcome = "ok" THEN "" ELSE outcome]

\* One "if <id>: try: _kick_server .. except CalledProcessError" block of
\* cluster_kick.
KickAttempt(cluster, key, name, server_id, outcome, acc) ==
    IF acc.raised # "" \/ server_id = "" THEN acc
    ELSE LET k == kick_server(cluster, server_id, outcome, acc) IN
         IF k.raised = ""
         THEN [k EXCEPT !.results =
                  Append(k.results, ActionSet(key, "requested kick of", server_id))]
         ELSE IF k.raised = "CalledProcessError"
         THEN [k EXCEPT !.raised = "",
                        !.results = Append(k.results,
                            ActionFail("Failed to kick " \o name \o " cluster member",
                                       server_id, "output"))]
         ELSE k

\* Variant: the request is never rejected.
NoServerIdUnchecked(sb_server_id, nb_server_id) == FALSE

\* not (sb_server_id or nb_server_id)
NoServerId(sb_server_id, nb_server_id) == ~(sb_server_id # "" \/ nb_server_id # "")

\* cluster_kick(), on what the caller has done so far.
cluster_kick(params, o_sb, o_nb, acc) ==
    LET sb_server_id == Str(action_get(params.sb))
        nb_server_id == Str(action_get(params.nb))
    IN IF NoServerId(sb_server_id, nb_server_id)
       THEN [acc EXCEPT !.results =
                Append(acc.results,
                       ActionFail("At least one server ID to kick must be specified.",
                                  "", ""))]
       ELSE KickAttempt("northbound", "ovnnb", "Northbound", nb_server_id, o_nb,
                KickAttempt("southbound", "ovnsb", "Southbound", sb_server_id, o_sb, acc))

\* Position of the first unit of cluster_ip_map whose ip is member_address,
\* 0 if there is none (the for .. else of the inner loop).
FirstUnitAt(cluster_ip_map, member_address) ==
    IF \E i \in 1..Len(cluster_ip_map) : cluster_ip_map[i].ip = member_address
    THEN CHOOSE i \in 1..Len(cluster_ip_map) :
            /\ cluster_ip_map[i].ip = member_address
            /\ \A j \in 1..(i - 1) : cluster_ip_map[j].ip # member_address
    ELSE 0

\* Variant: the dict is keyed by the server id.
DictSetById(d, k, v) == Append(d, [unit |-> v, id |-> k])

\* d[k] = v on a dict kept in insertion order: an existing key gets the
\* new value, a new key is added.
DictSet(d, k, v) ==
    IF \E i \in 1..Len(d) : d[i].unit = k
    THEN [i \in 1..Len(d) |-> IF d[i].unit = k THEN [unit |-> k, id |-> v] ELSE d[i]]
    ELSE Append(d, [unit |-> k, id |-> v])

\* unknown_servers.append(server_id)
NoteUnknown(unknown_servers, server_id) == Append(unknown_servers, server_id)

\* One round of the loop of _format_cluster_status: the server's address
\* is looked up among the units; the server lands in mapped_servers under
\* the first unit that has it, in unknown_servers if none has.
MapServer(server, cluster_ip_map, member_address, acc) ==
    IF member_address.raised # ""
    THEN [acc EXCEPT !.raised = member_address.raised]
    ELSE IF FirstUnitAt(cluster_ip_map, member_address.val) # 0
    THEN [acc EXCEPT !.mapped_servers =
             DictSet(acc.mapped_servers,
                     cluster_ip_map[FirstUnitAt(cluster_ip_map,
                                                member_address.val)].unit,
                     server.id)]
    ELSE [acc EXCEPT !.unknown_servers =
             NoteUnknown(acc.unknown_servers, server.id)]

\* The loop of _format_cluster_status over the servers not yet visited.
RECURSIVE MapServers(_, _, _)
MapServers(servers, cluster_ip_map, acc) ==
    IF servers = <<>> \/ acc.raised # "" THEN acc
    ELSE CHOOSE r \in
            { MapServers(Tail(servers), cluster_ip_map, visited) :
                 visited \in {MapServer(Head(servers), cluster_ip_map,
                                        url_to_ip(Head(servers).url), acc)} } : TRUE

\* _format_cluster_status(raw_cluster_status, cluster_ip_map): the
\* unit_map of the dict returned, or StatusParsingException; a status that
\* is None has no attribute servers.
format_cluster_status(raw_cluster_status, cluster_ip_map) ==
    IF ~raw_cluster_status.present
    THEN [raised |-> "AttributeError", val |-> ""]
    ELSE LET r == MapServers(raw_cluster_status.servers, cluster_ip_map,
                             [mapped_servers |-> <<>>, unknown_servers |-> <<>>,
                              raised |-> ""])
         IN IF r.raised # "" THEN [raised |-> r.raised, val |-> ""]
            ELSE [raised |-> "",
                  val |-> [mapped_servers |-> r.mapped_servers,
                           has_unknown |-> r.unknown_servers # <<>>,
                           UNKNOWN |-> r.unknown_servers]]

\* _format_cluster_status called on its own.
FormatClusterStatus(servers, cluster_ip_map) ==
    /\ pc = "idle"
    /\ WorldUnread
    /\ op' = "_format_cluster_status"
    /\ LET r == format_cluster_status([present |-> TRUE, servers |-> servers],
                                      cluster_ip_map)
       IN /\ fn_arg' = [fn |-> "_format_cluster_status", servers |-> servers,
                        cluster_ip_map |-> cluster_ip_map]
          /\ fn_ret' = r
          /\ raised' = r.raised
          /\ pc' = IF r.raised = "" THEN "returned" ELSE "raised"
    /\ UNCHANGED <<engine, db, tgt_secs, tgt_timer, cur_timer, change_timer,
                   change_op, status, log_error, start_timer, live_at_cmd,
                   lockstep, db_files, connections, joined, waitVars, reactiveVars,
                   calls, logs, given_server_id, action_params, results,
                   snap_installed>>

\* _url_to_ip("ssl:<address>:<port>") called on its own.
UrlToIp(address, port) ==
    /\ pc = "idle"
    /\ WorldUnread
    /\ op' = "_url_to_ip"
    /\ LET cluster_url == "ssl:" \o address \o ":" \o port IN
       /\ fn_arg' = [fn |-> "_url_to_ip", address |-> address, port |-> port,
                  cluster_url |-> cluster_url]
       /\ fn_ret' = url_to_ip(cluster_url)
       /\ raised' = url_to_ip(cluster_url).raised
       /\ pc' = IF url_to_ip(cluster_url).raised = "" THEN "returned" ELSE "raised"
    /\ UNCHANGED <<engine, db, tgt_secs, tgt_timer, cur_timer, change_timer,
                   change_op, status, log_error, start_timer, live_at_cmd,
                   lockstep, db_files, connections, joined, waitVars, reactiveVars,
                   calls, logs, given_server_id, action_params, results,
                   snap_installed>>

ActionUnchangedRest ==
    UNCHANGED <<engine, db, tgt_secs, tgt_timer, cur_timer, change_timer,
                change_op, status, log_error, start_timer, live_at_cmd,
                lockstep, db_files, connections, joined, waitVars, reactiveVars>>

\* The action cluster-kick run on its own.
ClusterKick(p_sb, p_nb, o_sb, o_nb) ==
    /\ pc = "idle"
    /\ WorldUnread
    /\ op' = "cluster_kick"
    /\ action_params' = [sb |-> p_sb, nb |-> p_nb]
    /\ LET r == cluster_kick([sb |-> p_sb, nb |-> p_nb], o_sb, o_nb,
                             [calls |-> calls, results |-> results, raised |-> ""])
       IN /\ calls' = r.calls
          /\ results' = r.results
          /\ raised' = r.raised
          /\ pc' = IF r.raised = "" THEN "returned" ELSE "raised"
    /\ UNCHANGED <<logs, given_server_id, fn_arg, fn_ret, snap_installed>>
    /\ ActionUnchangedRest

\* How ch_ovn.cluster_status ends: the parsed status, a non-zero exit of
\* the control command, no control socket located, no control program.
ClusterStatusOutcomes == {"ok", "CalledProcessError", "ValueError", "FileNotFoundError"}

\* Variant: only the non-zero exit is handled.
CaughtByClusterStatusExitOnly(exc) == exc = "CalledProcessError"

\* except (ValueError, subprocess.CalledProcessError)
CaughtByClusterStatus(exc) == exc \in {"ValueError", "CalledProcessError"}

\* BaseOVNCentralCharm.cluster_status(db) by the outcome of
\* ch_ovn.cluster_status, on what the caller has done so far; ret is the
\* value returned, NoServers standing for None.
charm_cluster_status(ovn_db, outcome, servers, acc) ==
    IF acc.raised # "" THEN acc
    ELSE LET called == [acc EXCEPT !.calls = Append(acc.calls, EvStatus(ovn_db))] IN
         IF outcome = "ok"
         THEN [called EXCEPT !.ret = [present |-> TRUE, servers |-> servers]]
         ELSE IF CaughtByClusterStatus(outcome)
         THEN [called EXCEPT
                 !.logs = Append(called.logs,
                     EvLog("DEBUG",
                           "Unable to get cluster status, ovsdb-server not ready yet?")),
                 !.ret = NoServers]
         ELSE [called EXCEPT !.raised = outcome, !.ret = NoServers]

\* BaseOVNCentralCharm.cluster_status called on its own.
CharmClusterStatus(ovn_db, outcome, servers) ==
    /\ pc = "idle"
    /\ WorldUnread
    /\ op' = "cluster_status"
    /\ LET r == charm_cluster_status(ovn_db, outcome, servers,
                    [calls |-> calls, logs |-> logs, raised |-> "", ret |-> NoServers])
       IN /\ calls' = r.calls
          /\ logs' = r.logs
          /\ raised' = r.raised
          /\ fn_arg' = [fn |-> "cluster_status", db |-> ovn_db, outcome |-> outcome,
                        servers |-> servers]
          /\ fn_ret' = [raised |-> r.raised, val |-> r.ret]
          /\ pc' = IF r.raised = "" THEN "returned" ELSE "raised"
    /\ UNCHANGED <<given_server_id, action_params, results, snap_installed>>
    /\ ActionUnchangedRest

\* cluster_status() of actions/cluster.py, on what the caller has done so
\* far: both status queries, the unit table, both reformattings inside the
\* try block, then action_fail or the two action_set calls.
action_cluster_status(o_sb, o_nb, sb_servers, nb_servers, cluster_ip_map, acc) ==
    LET sb_st == charm_cluster_status("ovnsb_db", o_sb, sb_servers,
                        [calls |-> acc.calls, logs |-> acc.logs, raised |-> "",
                         ret |-> NoServers])
        nb_st == charm_cluster_status("ovnnb_db", o_nb, nb_servers, sb_st)
        queried == [acc EXCEPT !.calls = nb_st.calls, !.logs = nb_st.logs]
        sb_cluster == format_cluster_status(sb_st.ret, cluster_ip_map)
        nb_cluster == format_cluster_status(nb_st.ret, cluster_ip_map)
        exc == IF sb_cluster.raised # "" THEN sb_cluster.raised ELSE nb_cluster.raised
    IN IF nb_st.raised # ""
       THEN [queried EXCEPT !.raised = nb_st.raised]
       ELSE IF exc = "StatusParsingException"
       THEN [queried EXCEPT !.results =
                Append(queried.results,
                       ActionFail("Failed to parse OVN cluster status.", "", ""))]
       ELSE IF exc # ""
       THEN [queried EXCEPT !.raised = exc]
       ELSE [queried EXCEPT !.results =
                queried.results \o <<ActionSet("ovnsb", "cluster status", ""),
                                     ActionSet("ovnnb", "cluster status", "")>>]

\* The Southbound and Northbound server lists of the runs of the action
\* cluster-status: both well formed, either or both with an address that
\* is none, different members, an empty cluster.
StatusServerPairs ==
    { <<(<<SrvA, SrvB>>), (<<SrvA, SrvB>>)>>, <<(<<SrvB, SrvG>>), (<<SrvA, SrvB>>)>>,
      <<(<<SrvA, SrvB>>), (<<SrvB, SrvG>>)>>, <<(<<SrvB, SrvG>>), (<<SrvB, SrvG>>)>>,
      <<(<<SrvA, SrvB, SrvF>>), (<<SrvB, SrvC>>)>>, <<(<<>>), (<<SrvD>>)>> }

\* The action cluster-status run on its own.
ClusterStatus(o_sb, o_nb, sb_servers, nb_servers, cluster_ip_map) ==
    /\ pc = "idle"
    /\ WorldUnread
    /\ op' = "cluster-status"
    /\ \E r \in {action_cluster_status(o_sb, o_nb, sb_servers, nb_servers, cluster_ip_map,
                     [calls |-> calls, logs |-> logs, results |-> results,
                      raised |-> ""])} :
          /\ calls' = r.calls
          /\ logs' = r.logs
          /\ results' = r.results
          /\ raised' = r.raised
          /\ pc' = IF r.raised = "" THEN "returned" ELSE "raised"
    /\ fn_arg' = [fn |-> "cluster_status", o_sb |-> o_sb, o_nb |-> o_nb,
                  sb_servers |-> sb_servers, nb_servers |-> nb_servers,
                  cluster_ip_map |-> cluster_ip_map]
    /\ UNCHANGED <<given_server_id, action_params, fn_ret, snap_installed>>
    /\ ActionUnchangedRest

\* cluster-status on every pair of server lists, outcome of the two status
\* queries and unit table.
ClusterStatusRuns ==
    /\ pc = "idle"
    /\ WorldUnread
    /\ \E o_sb, o_nb \in ClusterStatusOutcomes, l \in StatusServerPairs, m \in IpMaps :
          ClusterStatus(o_sb, o_nb, l[1], l[2], m)

\* os.path.basename(args[0]) of the runs of main.
ActionNames == {"cluster-status", "cluster-kick", "cluster-foo"}

\* What a run of main for action_name meets: the parameters and command
\* outcomes of a kick, or the status outcomes, servers and unit table of a
\* status report.
MainInputs(action_name) ==
    IF action_name = "cluster-kick"
    THEN { [p_sb |-> p_sb, p_nb |-> p_nb, o_sb |-> o_sb, o_nb |-> o_nb,
            servers |-> <<>>, cluster_ip_map |-> <<>>] :
              p_sb \in SbServerIdParams, p_nb \in NbServerIdParams,
              o_sb \in AppctlOutcomes, o_nb \in AppctlOutcomes }
    ELSE IF action_name = "cluster-status"
    THEN { [p_sb |-> NotSupplied, p_nb |-> NotSupplied, o_sb |-> o_sb, o_nb |-> o_nb,
            servers |-> l, cluster_ip_map |-> m] :
              o_sb \in ClusterStatusOutcomes, o_nb \in ClusterStatusOutcomes,
              l \in FormatServerLists, m \in IpMaps }
    ELSE { [p_sb |-> NotSupplied, p_nb |-> NotSupplied, o_sb |-> "ok", o_nb |-> "ok",
            servers |-> <<>>, cluster_ip_map |-> <<>>] }

\* Variant: main handles the failure of a command only.
MainCatchesCommandFailure(exc) == exc = "CalledProcessError"

\* except Exception
MainCatches(exc) == TRUE

\* ACTIONS[action_name]() on what main has done so far.
RunAction(action_name, inp, acc) ==
    IF action_name = "cluster-status"
    THEN action_cluster_status(inp.o_sb, inp.o_nb, inp.servers, inp.servers,
                               inp.cluster_ip_map, acc)
    ELSE LET k == cluster_kick([sb |-> inp.p_sb, nb |-> inp.p_nb], inp.o_sb, inp.o_nb,
                               [calls |-> acc.calls, results |-> acc.results,
                                raised |-> ""])
         IN [acc EXCEPT !.calls = k.calls, !.results = k.results, !.raised = k.raised]

\* main(args), on the state before the run; ret is the value returned.
main(action_name, peer, inp, acc) ==
    IF ~peer
    THEN [acc EXCEPT !.results =
             Append(acc.results, ActionFail("Unit is not part of an OVN cluster.", "", ""))]
    ELSE IF action_name \notin {"cluster-status", "cluster-kick"}
    THEN [acc EXCEPT !.ret = "Action " \o action_name \o " undefined"]
    ELSE LET a == RunAction(action_name, inp, acc) IN
         IF a.raised # "" /\ MainCatches(a.raised)
         THEN [a EXCEPT !.raised = "",
                        !.results = Append(a.results, ActionFail(a.raised, "", ""))]
         ELSE a

\* One run of the action entry point; peer is whether the ovsdb-peer
\* endpoint is available.
MainRun(action_name, peer, inp) ==
    /\ op' = "main"
    /\ action_params' = [sb |-> inp.p_sb, nb |-> inp.p_nb]
    /\ \E r \in {main(action_name, peer, inp,
                     [calls |-> calls, logs |-> logs, results |-> results,
                      raised |-> "", ret |-> "None"])} :
          /\ calls' = r.calls
          /\ logs' = r.logs
          /\ results' = r.results
          /\ raised' = r.raised
          /\ fn_arg' = [fn |-> "main", action_name |-> action_name, peer |-> peer,
                        o_sb |-> inp.o_sb, o_nb |-> inp.o_nb, servers |-> inp.servers,
                        cluster_ip_map |-> inp.cluster_ip_map]
          /\ fn_ret' = [raised |-> r.raised, val |-> r.ret]
          /\ pc' = IF r.raised = "" THEN "returned" ELSE "raised"
    /\ UNCHANGED <<given_server_id, snap_installed>>
    /\ ActionUnchangedRest

\* main on every action name, with and without the peer endpoint.
Main ==
    /\ pc = "idle"
    /\ WorldUnread
    /\ \E action_name \in ActionNames, peer \in BOOLEAN :
          \E inp \in MainInputs(action_name) : MainRun(action_name, peer, inp)

\* ---- the reactive handlers ------------------------------------------------
\* wait_for_server_leave, leave_cluster and the handlers read neither the
\* engine record nor the Connection table; they are started from one such
\* state.
EngineUnread ==
    /\ engine = [up |-> TRUE, leader |-> TRUE, status |-> "cluster member",
                 election_timer |-> 1000, pending |-> 0]
    /\ connections = {}

\* @reactive.when, @reactive.when_none, @reactive.when_any
when(fs) == fs \subseteq flags

when_none(fs) == fs \cap flags = {}

when_any(fs) == fs \cap flags # {}

\* An entry of hlog: handler h invoked fn with arg; fn = "dispatch" is the
\* invocation of the handler itself.
HCall(h, fn, arg) == [h |-> h, fn |-> fn, arg |-> arg]

Dispatches == SelectSeq(hlog, LAMBDA e : e.fn = "dispatch")

\* The dispatcher may invoke a handler: at the start of a hook, after a
\* handler has returned, and in the hook that follows a failed one.
HandlerMayRun ==
    /\ op = "reactive"
    /\ pc \in {"dispatch", "raised"}
    /\ Len(Dispatches) < MaxDispatch

HandlerUnchangedRest ==
    UNCHANGED <<engine, op, db, tgt_secs, tgt_timer, cur_timer, change_timer,
                change_op, status, log_error, start_timer, live_at_cmd,
                lockstep, connections, actionVars>>

\* The unit enters the reactive dispatch with the flags fl.
ReactiveStart(fl) ==
    /\ pc = "idle"
    /\ EngineUnread
    /\ op' = "reactive"
    /\ pc' = "dispatch"
    /\ flags' = fl
    /\ UNCHANGED <<engine, db, tgt_secs, tgt_timer, cur_timer, change_timer,
                   change_op, status, log_error, start_timer, live_at_cmd,
                   lockstep, connections, calls, raised, db_files, joined,
                   logs, waitVars, hlog, actionVars>>

\* join_cluster inside a handler, on what the handler has done so far;
\* outcome is how the tool ends if it is run.
join_cluster(release, db_file, schema_name, local_conn, remote_conn, outcome, acc) ==
    IF acc.raised # "" THEN acc
    ELSE LET absolute_path == AbsolutePath(release, db_file) IN
         IF PathExists(absolute_path, acc.db_files) THEN acc
         ELSE [calls |-> Append(acc.calls, JoinCmd(absolute_path, schema_name,
                                                   local_conn, remote_conn)),
               db_files |-> IF outcome = "ok"
                            THEN acc.db_files \cup {absolute_path}
                            ELSE acc.db_files,
               joined |-> IF outcome = "ok"
                          THEN Append(acc.joined, absolute_path)
                          ELSE acc.joined,
               raised |-> IF outcome = "ok" THEN "" ELSE "CalledProcessError"]

\* What configure_ovn invokes: three listeners, then the election timer
\* of both databases.
ConfigureOvnCalls(h) ==
    <<HCall(h, "configure_ovn", ""),
      HCall(h, "configure_ovn_listener", "nb"),
      HCall(h, "configure_ovn_listener", "sb"),
      HCall(h, "configure_ovn_listener", "sb"),
      HCall(h, "configure_ovsdb_election_timer", "nb"),
      HCall(h, "configure_ovsdb_election_timer", "sb")>>

\* self.services: the base list, extended by the Ussuri class.
services(release) ==
    IF release = "train" THEN <<"ovn-central">>
    ELSE <<"ovn-central", "ovn-ovsdb-server-nb", "ovn-ovsdb-server-sb">>

\* What check_if_paused returns: (None, None), or a status and a message.
NotPaused == <<"None", "None">>

PausedStates == {NotPaused, <<"maintenance", "Paused. Use 'resume' action to resume">>}

EvServiceResume(service) ==
    [ev |-> "service_resume", db |-> "", cmd |-> service, schema |-> "", val |-> 0,
     arg |-> "", args |-> <<>>]

\* enable_services(): what it returns and the services it resumes.
enable_services(check_if_paused, svcs) ==
    IF check_if_paused # NotPaused
    THEN [ret |-> FALSE, resumed |-> <<>>]
    ELSE [ret |-> TRUE, resumed |-> svcs]

\* enable_services called on its own.
EnableServices(release, check_if_paused) ==
    /\ pc = "idle"
    /\ WorldUnread
    /\ op' = "enable_services"
    /\ LET e == enable_services(check_if_paused, services(release)) IN
       /\ calls' = calls \o [i \in 1..Len(e.resumed) |-> EvServiceResume(e.resumed[i])]
       /\ fn_arg' = [fn |-> "enable_services", release |-> release,
                     check_if_paused |-> check_if_paused]
       /\ fn_ret' = [raised |-> "", val |-> IF e.ret THEN "True" ELSE "False"]
    /\ pc' = "returned"
    /\ UNCHANGED <<raised, logs, given_server_id, action_params, results,
                   snap_installed>>
    /\ ActionUnchangedRest

\* ---- assess_exporter -----------------------------------------------------
\* Most calls of assess_exporter in one behaviour.
MaxAssess == 4

ExporterInitialized == "prometheus-ovn-exporter.initialized"

\* exporter_service
exporter_service == "snap.prometheus-ovn-exporter.ovn-exporter"

\* Values of the option ovn-exporter-channel: empty, a bare risk level, a
\* track with a risk level, and a track with something that is no risk level.
ExporterChannels == {"", "stable", "0.10/edge", "latest/nightly"}

\* The property ovn_exporter_snap_channel returns None for an empty option.
NoChannel == "None"

\* channel.split('/')[-1]
RECURSIVE ChannelSuffix(_)
ChannelSuffix(channel) ==
    IF \E i \in 1..Len(channel) : SubSeq(channel, i, i) = "/"
    THEN LET first == CHOOSE i \in 1..Len(channel) :
                         /\ SubSeq(channel, i, i) = "/"
                         /\ \A j \in 1..(i - 1) : SubSeq(channel, j, j) # "/"
         IN ChannelSuffix(SubSeq(channel, first + 1, Len(channel)))
    ELSE channel

\* The property ovn_exporter_snap_channel of the configuration adapter.
ovn_exporter_snap_channel(ovn_exporter_channel) ==
    IF ovn_exporter_channel = "" THEN NoChannel
    ELSE IF ChannelSuffix(ovn_exporter_channel)
               \notin {"stable", "candidate", "beta", "edge"}
         THEN "stable"
         ELSE ChannelSuffix(ovn_exporter_channel)

\* A call into the snap layer: is_installed (arg: what it returned),
\* remove, refresh and install (arg: the channel), connect_all.
EvSnap(cmd, arg) ==
    [ev |-> "snap", db |-> "", cmd |-> cmd, schema |-> "", val |-> 0,
     arg |-> arg, args |-> <<>>]

\* ch_core.host.service_restart(service)
EvServiceRestart(service) ==
    [ev |-> "service_restart", db |-> "", cmd |-> service, schema |-> "",
     val |-> 0, arg |-> "", args |-> <<>>]

\* Variant: the exporter is restarted on every call with a channel.
NeedsRestartAlways(is_installed, initialized) == TRUE

\* if (not is_installed or not reactive.is_flag_set(...initialized)):
NeedsRestart(is_installed, initialized) == ~is_installed \/ ~initialized

\* The calls of assess_exporter so far: each starts with snap.is_installed.
AssessCalls(cs) ==
    SelectSeq(cs, LAMBDA c : c.ev = "snap" /\ c.cmd = "is_installed")

\* assess_exporter(), called any number of times in a row.
AssessExporter(ovn_exporter_channel) ==
    /\ \/ pc = "idle" /\ WorldUnread
       \/ op = "assess_exporter" /\ pc = "returned"
    /\ Len(AssessCalls(calls)) < MaxAssess
    /\ op' = "assess_exporter"
    /\ pc' = "returned"
    /\ LET is_installed == snap_installed
           channel == ovn_exporter_snap_channel(ovn_exporter_channel)
           asked == EvSnap("is_installed", IF is_installed THEN "True" ELSE "False")
       IN /\ fn_arg' = [fn |-> "assess_exporter",
                        ovn_exporter_channel |-> ovn_exporter_channel]
          /\ IF channel = NoChannel
             THEN IF is_installed
                  THEN /\ calls' = calls \o <<asked, EvSnap("remove", "")>>
                       /\ snap_installed' = FALSE
                       /\ flags' = flags \ {ExporterInitialized}
                  ELSE /\ calls' = Append(calls, asked)
                       /\ UNCHANGED <<snap_installed, flags>>
             ELSE /\ snap_installed' = TRUE
                  /\ IF NeedsRestart(is_installed, ExporterInitialized \in flags)
                     THEN /\ calls' = calls \o
                               <<asked,
                                 EvSnap(IF is_installed THEN "refresh" ELSE "install",
                                        channel),
                                 EvSnap("connect_all", ""),
                                 EvServiceRestart(exporter_service)>>
                          /\ flags' = flags \cup {ExporterInitialized}
                     ELSE /\ calls' = calls \o
                               <<asked,
                                 EvSnap(IF is_installed THEN "refresh" ELSE "install",
                                        channel),
                                 EvSnap("connect_all", "")>>
                          /\ UNCHANGED flags
    /\ UNCHANGED <<raised, logs, hlog, given_server_id, action_params, results,
                   fn_ret>>
    /\ UNCHANGED <<engine, db, tgt_secs, tgt_timer, cur_timer, change_timer,
                   change_op, status, log_error, start_timer, live_at_cmd,
                   lockstep, db_files, connections, joined, waitVars>>

\* Between two calls of assess_exporter the snap layer installs the snap,
\* or the snap is removed from the unit, without the charm's doing.
SnapChanges ==
    /\ op = "assess_exporter" /\ pc = "returned"
    /\ Len(AssessCalls(calls)) < MaxAssess
    /\ snap_installed' = ~snap_installed
    /\ UNCHANGED <<engine, pc, op, db, tgt_secs, tgt_timer, cur_timer,
                   change_timer, change_op, status, calls, raised, log_error,
                   start_timer, live_at_cmd, lockstep, db_files, connections,
                   joined, logs, waitVars, reactiveVars, given_server_id,
                   action_params, results, fn_arg, fn_ret>>

\* Variant: render does not look at the upgrade flags.
RenderGuardNoUpgrade ==
    /\ when_none({"is-update-status-hook", "config.changed.source",
                  "config.changed.ovn-source", "endpoint.ovsdb-peer.departed"})
    /\ when({"ovsdb-peer.available", "leadership.set.nb_cid",
             "leadership.set.sb_cid", "certificates.connected",
             "certificates.available"})

\* Variant: render does not wait for the cluster ids.
RenderGuardNoCids ==
    /\ when_none({"is-update-status-hook", "coordinator.granted.upgrade",
                  "coordinator.requested.upgrade", "config.changed.source",
                  "config.changed.ovn-source", "endpoint.ovsdb-peer.departed"})
    /\ when({"ovsdb-peer.available", "certificates.connected",
             "certificates.available"})

RenderGuard ==
    /\ when_none({"is-update-status-hook", "coordinator.granted.upgrade",
                  "coordinator.requested.upgrade", "config.changed.source",
                  "config.changed.ovn-source", "endpoint.ovsdb-peer.departed"})
    /\ when({"ovsdb-peer.available", "leadership.set.nb_cid",
             "leadership.set.sb_cid", "certificates.connected",
             "certificates.available"})

\* render(): j_nb and j_sb are how ovsdb-tool ends if it is run,
\* check_if_paused what enable_services finds, co how configure_ovn ends
\* (the election timer change can raise CalledProcessError).
Render(release, remote_conn, j_nb, j_sb, check_if_paused, co) ==
    /\ HandlerMayRun
    /\ RenderGuard
    /\ LET h == "render"
           e == enable_services(check_if_paused, services(release))
           es == e.ret
           local_conn == <<"ssl:10.0.0.1:6643">>
           a1 == join_cluster(release, "ovnnb_db.db", "OVN_Northbound", local_conn,
                              remote_conn, j_nb,
                              [calls |-> calls, db_files |-> db_files,
                               joined |-> joined, raised |-> ""])
           a2 == join_cluster(release, "ovnsb_db.db", "OVN_Southbound", local_conn,
                              remote_conn, j_sb, a1)
           failed == IF a2.raised # "" THEN a2.raised
                     ELSE IF es /\ co # "ok" THEN co ELSE ""
       IN /\ calls' = a2.calls
          /\ db_files' = a2.db_files
          /\ joined' = a2.joined
          /\ raised' = failed
          /\ pc' = IF failed = "" THEN "dispatch" ELSE "raised"
          /\ flags' = IF es /\ failed = "" THEN flags \cup {"config.rendered"} ELSE flags
          /\ hlog' = hlog
                \o <<HCall(h, "dispatch", ""), HCall(h, "render_with_interfaces", ""),
                     HCall(h, "join_cluster", "ovnnb_db.db")>>
                \o (IF a1.raised = "" THEN <<HCall(h, "join_cluster", "ovnsb_db.db")>>
                    ELSE <<>>)
                \o (IF a2.raised = ""
                    THEN <<HCall(h, "enable_services", IF es THEN "True" ELSE "False")>>
                         \o [i \in 1..Len(e.resumed) |->
                                 HCall(h, "service_resume", e.resumed[i])]
                    ELSE <<>>)
                \o (IF a2.raised = "" /\ es THEN ConfigureOvnCalls(h) ELSE <<>>)
                \o (IF failed = "" /\ es THEN <<HCall(h, "set_flag", "config.rendered")>>
                    ELSE <<>>)
                \o (IF failed = "" THEN <<HCall(h, "assess_status", "")>> ELSE <<>>)
    /\ UNCHANGED <<logs, waitVars>>
    /\ HandlerUnchangedRest

\* Variant: the leader announces whether or not the ids are published.
AnnounceLeaderReadyGuardAgain ==
    /\ when_none({"is-update-status-hook", "coordinator.granted.upgrade",
                  "coordinator.requested.upgrade", "config.changed.source",
                  "config.changed.ovn-source"})
    /\ when({"config.rendered", "certificates.connected", "certificates.available",
             "leadership.is_leader", "ovsdb-peer.connected"})

AnnounceLeaderReadyGuard ==
    /\ when_none({"is-update-status-hook", "leadership.set.nb_cid",
                  "leadership.set.sb_cid", "coordinator.granted.upgrade",
                  "coordinator.requested.upgrade", "config.changed.source",
                  "config.changed.ovn-source"})
    /\ when({"config.rendered", "certificates.connected", "certificates.available",
             "leadership.is_leader", "ovsdb-peer.connected"})

\* announce_leader_ready(): co is how configure_ovn ends, st_ok whether
\* both cluster_status calls return a status (None has no cluster_id).
AnnounceLeaderReady(co, st_ok) ==
    /\ HandlerMayRun
    /\ AnnounceLeaderReadyGuard
    /\ LET h == "announce_leader_ready"
           failed == IF co # "ok" THEN co
                     ELSE IF ~st_ok THEN "AttributeError" ELSE ""
       IN /\ raised' = failed
          /\ pc' = IF failed = "" THEN "dispatch" ELSE "raised"
          /\ flags' = IF failed = ""
                      THEN flags \cup {"leadership.set.ready", "leadership.set.nb_cid",
                                       "leadership.set.sb_cid"}
                      ELSE flags
          /\ hlog' = hlog
                \o <<HCall(h, "dispatch", ""),
                     HCall(h, "publish_cluster_local_addr", "")>>
                \o ConfigureOvnCalls(h)
                \o (IF co = "ok"
                    THEN <<HCall(h, "cluster_status", "ovnnb_db"),
                           HCall(h, "cluster_status", "ovnsb_db")>>
                    ELSE <<>>)
                \o (IF failed = "" THEN <<HCall(h, "leader_set", "ready")>> ELSE <<>>)
    /\ UNCHANGED <<calls, db_files, joined, logs, waitVars>>
    /\ HandlerUnchangedRest

InitializeOvsdbsGuard ==
    /\ when_none({"is-update-status-hook", "leadership.set.nb_cid",
                  "leadership.set.sb_cid", "coordinator.granted.upgrade",
                  "coordinator.requested.upgrade"})
    /\ when({"charm.installed", "leadership.is_leader", "ovsdb-peer.connected"})

\* initialize_ovsdbs(): es is what enable_services returns.
InitializeOvsdbs(es) ==
    /\ HandlerMayRun
    /\ InitializeOvsdbsGuard
    /\ LET h == "initialize_ovsdbs" IN
       /\ hlog' = hlog
             \o <<HCall(h, "dispatch", ""), HCall(h, "render_with_interfaces", ""),
                  HCall(h, "enable_services", "")>>
             \o (IF es THEN <<HCall(h, "use_defaults", "certificates.available"),
                              HCall(h, "set_flag", "config.rendered")>>
                 ELSE <<>>)
             \o <<HCall(h, "assess_status", "")>>
       /\ flags' = IF es THEN flags \cup {"config.rendered"} ELSE flags
    /\ pc' = "dispatch"
    /\ raised' = ""
    /\ UNCHANGED <<calls, db_files, joined, logs, waitVars>>
    /\ HandlerUnchangedRest

\* Variant: the handler does not look at the departure flag.
ConfigureFirewallGuardDeparted ==
    /\ when_none({"is-update-status-hook"})
    /\ when({"ovsdb-peer.available"})

ConfigureFirewallGuard ==
    /\ when_none({"is-update-status-hook", "endpoint.ovsdb-peer.departed"})
    /\ when({"ovsdb-peer.available"})

\* configure_firewall(), the handler
ConfigureFirewall ==
    /\ HandlerMayRun
    /\ ConfigureFirewallGuard
    /\ hlog' = hlog \o <<HCall("configure_firewall", "dispatch", ""),
                          HCall("configure_firewall", "configure_firewall", ""),
                          HCall("configure_firewall", "assess_status", "")>>
    /\ pc' = "dispatch"
    /\ raised' = ""
    /\ UNCHANGED <<calls, db_files, joined, logs, waitVars, flags>>
    /\ HandlerUnchangedRest

\* maybe_request_upgrade(): coordinator.acquire('upgrade') leaves the lock
\* granted or requested.
MaybeRequestUpgrade(granted) ==
    /\ HandlerMayRun
    /\ when_none({"is-update-status-hook"})
    /\ when({"ovsdb-peer.available"})
    /\ when_any({"config.changed.source", "config.changed.ovn-source"})
    /\ flags' = flags \cup {IF granted THEN "coordinator.granted.upgrade"
                             ELSE "coordinator.requested.upgrade"}
    /\ hlog' = hlog \o <<HCall("maybe_request_upgrade", "dispatch", ""),
                          HCall("maybe_request_upgrade", "acquire", "upgrade")>>
    /\ pc' = "dispatch"
    /\ raised' = ""
    /\ UNCHANGED <<calls, db_files, joined, logs, waitVars>>
    /\ HandlerUnchangedRest

\* is_departing_unit = hookenv.local_unit() == departing_unit
IsDepartingUnit(departing_unit) == local_unit = departing_unit

\* How ovn.wait_for_server_leave(remote_unit_ip) ends for the handler: it
\* returns True or False, or the AttributeError of a missing status
\* leaves it (the steps of the call are the Wait actions).
WaitOutcomes == {"True", "False", "AttributeError"}

\* remote_unit_ip = peers.all_departed_units[departing_unit]
\*                       .received["bound-address"]
remote_unit_ip(departing_unit) == BoundAddress(departing_unit)

\* handle_cluster_downscale(): departing_unit is hookenv.departing_unit(),
\* o_sb and o_nb how the two cluster/leave commands end, w how
\* wait_for_server_leave ends.
HandleClusterDownscale(departing_unit, o_sb, o_nb, w) ==
    /\ HandlerMayRun
    /\ when({"endpoint.ovsdb-peer.departed"})
    /\ LET h == "handle_cluster_downscale"
           start == <<HCall(h, "dispatch", departing_unit)>>
       IN
       IF "ovsdb-peer.left_cluster" \in flags
       THEN /\ logs' = Append(logs, EvLog("INFO", "Servers already left the cluster."))
            /\ hlog' = hlog \o start
            /\ pc' = "dispatch"
            /\ raised' = ""
            /\ UNCHANGED <<calls, flags>>
       ELSE IF IsDepartingUnit(departing_unit)
       THEN LET r == leave_cluster(o_sb, o_nb,
                                   [calls |-> calls, logs |-> logs, raised |-> ""])
            IN /\ calls' = r.calls
               /\ logs' = r.logs
               /\ raised' = r.raised
               /\ hlog' = hlog \o start \o <<HCall(h, "leave_cluster", "")>>
                           \o (IF r.raised = ""
                               THEN <<HCall(h, "set_flag", "ovsdb-peer.left_cluster")>>
                               ELSE <<>>)
               /\ flags' = IF r.raised = ""
                           THEN flags \cup {"ovsdb-peer.left_cluster"}
                           ELSE flags
               /\ pc' = IF r.raised = "" THEN "dispatch" ELSE "raised"
       ELSE /\ hlog' = hlog \o start
                        \o <<HCall(h, "wait_for_server_leave", remote_unit_ip(departing_unit))>>
                        \o (IF w = "AttributeError" THEN <<>>
                            ELSE <<HCall(h, "configure_firewall", "")>>)
            /\ logs' = IF w = "True"
                       THEN Append(logs, EvLog("INFO", "successfully disconnected from cluster"))
                       ELSE IF w = "False"
                       THEN Append(logs, EvLog("WARNING", "failed to remove itself from cluster"))
                       ELSE logs
            /\ raised' = IF w = "AttributeError" THEN w ELSE ""
            /\ pc' = IF w = "AttributeError" THEN "raised" ELSE "dispatch"
            /\ UNCHANGED <<calls, flags>>
    /\ UNCHANGED <<db_files, joined, waitVars>>
    /\ HandlerUnchangedRest

\* ---- the environment: the ovsdb-server between the steps ----------------
EngineUnchangedRest ==
    UNCHANGED <<pc, op, db, tgt_secs, tgt_timer, cur_timer, change_timer, change_op,
                status, calls, raised, log_error, start_timer, live_at_cmd,
                lockstep, db_files, connections, joined, logs, waitVars,
                reactiveVars, actionVars>>

EngineApply ==
    /\ Running
    /\ engine.up
    /\ engine.pending # 0
    /\ engine' = [engine EXCEPT !.election_timer = engine.pending, !.pending = 0]
    /\ EngineUnchangedRest

\* Leadership moves to or from this server; a change that was accepted but
\* not yet applied may be lost with the leadership.
EngineLeadership ==
    /\ Running
    /\ \E p \in {engine.pending, 0} :
          engine' = [engine EXCEPT !.leader = ~engine.leader,
                                   !.pending = IF engine.leader THEN p ELSE engine.pending]
    /\ EngineUnchangedRest

EngineUpDown ==
    /\ Running
    /\ engine' = [engine EXCEPT !.up = ~engine.up]
    /\ EngineUnchangedRest

EngineStatus ==
    /\ Running
    /\ \E s \in StatusTexts \ {engine.status} :
          engine' = [engine EXCEPT !.status = s]
    /\ EngineUnchangedRest

Next ==
    \/ \E d \in DbArgs, t \in TgtTimers : ConfigureOvsdbElectionTimer(d, t)
    \/ FirstStatus
    \/ ChangeElectionTimer
    \/ Sleep
    \/ LoopStatus
    \/ \E d \in DbArgs, pm \in PortMaps : ConfigureOvnListener(d, pm)
    \/ \E c \in KickClusters, id \in ServerIds : KickServer(c, id)
    \/ \E r \in Releases, f \in JoinFiles, l \in LocalConns, rc \in RemoteConns :
          JoinCluster(r, f[1], f[2], l, rc)
    \/ \E o_sb, o_nb \in AppctlOutcomes : LeaveCluster(o_sb, o_nb)
    \/ \E p_sb \in SbServerIdParams, p_nb \in NbServerIdParams,
          o_sb, o_nb \in AppctlOutcomes : ClusterKick(p_sb, p_nb, o_sb, o_nb)
    \/ \E a \in UrlAddresses, p \in UrlPorts : UrlToIp(a, p)
    \/ \E l \in FormatServerLists, m \in IpMaps : FormatClusterStatus(l, m)
    \/ \E d \in {"ovnsb_db", "ovnnb_db"}, o \in ClusterStatusOutcomes, l \in ServerLists :
          CharmClusterStatus(d, o, l)
    \/ ClusterStatusRuns
    \/ Main
    \/ \E fl \in InitFlagSets : ReactiveStart(fl)
    \/ \E r \in Releases, rc \in RemoteConns, j_nb, j_sb, co \in {"ok", "CalledProcessError"},
          cp \in PausedStates : Render(r, rc, j_nb, j_sb, cp, co)
    \/ \E r \in Releases, cp \in PausedStates : EnableServices(r, cp)
    \/ \E c \in ExporterChannels : AssessExporter(c)
    \/ SnapChanges
    \/ \E co \in {"ok", "CalledProcessError"}, st_ok \in BOOLEAN :
          AnnounceLeaderReady(co, st_ok)
    \/ \E es \in BOOLEAN : InitializeOvsdbs(es)
    \/ ConfigureFirewall
    \/ \E g \in BOOLEAN : MaybeRequestUpgrade(g)
    \/ \E u \in Units, o_sb, o_nb \in AppctlOutcomes, w \in WaitOutcomes :
          HandleClusterDownscale(u, o_sb, o_nb, w)
    \/ \E ip \in WaitIps, t \in Timeouts : WaitForServerLeave(ip, t)
    \/ WaitLoop
    \/ \E st \in PollResults : WaitPollSb(st)
    \/ \E st \in PollResults : WaitPollNb(st)
    \/ WaitCheck
    \/ EngineApply
    \/ EngineLeadership
    \/ EngineUpDown
    \/ EngineStatus

Spec == Init /\ [][Next]_vars

FairSpec ==
    /\ Spec
    /\ WF_vars(FirstStatus)
    /\ WF_vars(ChangeElectionTimer)
    /\ WF_vars(Sleep)
    /\ WF_vars(LoopStatus)

\* -------------------------------------------------------------------------
\* Properties
\* -------------------------------------------------------------------------
IsTimerOp == op = "configure_ovsdb_election_timer"

IsChange(c) == c.ev = "ovn_appctl" /\ c.cmd = "cluster/change-election-timer"

\* The change-election-timer commands issued so far, and their values.
Cmds == SelectSeq(calls, IsChange)

CmdVals == [i \in 1..Len(Cmds) |-> Cmds[i].val]

\* The value a command starts from: the timer of the first status query for
\* the first command, the previous command's value after that.
PrevVal(i) == IF i = 1 THEN start_timer ELSE Cmds[i - 1].val

Min2(a, b) == IF a < b THEN a ELSE b

Max2(a, b) == IF a > b THEN a ELSE b

\* ceil(log2(hi / lo)): the least k with lo * 2^k >= hi.
RECURSIVE Doublings(_, _)
Doublings(lo, hi) == IF lo >= hi THEN 0 ELSE 1 + Doublings(2 * lo, hi)

CeilLog2Ratio(a, b) == Doublings(Min2(a, b), Max2(a, b))

\* C1: as long as every status query shows the unit leader and the value
\* last commanded (lockstep), a call with a target above the current timer
\* issues commands each equal to min(2 * previous, target); when it returns
\* the last one is the target and no earlier one is; from 1000 ms to 42 s
\* the commands are exactly 2000, 4000, 8000, 16000, 32000, 42000.
C1_IncreasingSteps ==
    (IsTimerOp /\ lockstep /\ start_timer # 0 /\ tgt_timer > start_timer) =>
        /\ \A i \in 1..Len(Cmds) : Cmds[i].val = Min2(2 * PrevVal(i), tgt_timer)
        /\ pc = "returned" =>
              /\ Len(Cmds) > 0
              /\ Cmds[Len(Cmds)].val = tgt_timer
              /\ \A i \in 1..(Len(Cmds) - 1) : Cmds[i].val # tgt_timer
        /\ (pc = "returned" /\ start_timer = 1000 /\ tgt_timer = 42000) =>
              CmdVals = <<2000, 4000, 8000, 16000, 32000, 42000>>

C1_Witness ==
    /\ IsTimerOp /\ lockstep /\ pc = "returned"
    /\ start_timer = 1000 /\ tgt_timer = 42000
    /\ CmdVals = <<2000, 4000, 8000, 16000, 32000, 42000>>

\* v = max(p // 2, t), with p // 2 the q for which 2q <= p < 2q + 2.
IsMaxOfHalf(v, p, t) ==
    IF v = t
    THEN p < 2 * t + 2
    ELSE v > t /\ 2 * v <= p /\ p < 2 * v + 2

\* C2: in lockstep, a call with a target below the current timer issues
\* commands each equal to max(previous // 2, target) with floor division;
\* when it returns the last one is the target and no earlier one is; from
\* 42000 ms to 1 s the commands are exactly 21000, 10500, 5250, 2625,
\* 1312, 1000.
C2_DecreasingSteps ==
    (IsTimerOp /\ lockstep /\ start_timer # 0 /\ tgt_timer < start_timer) =>
        /\ \A i \in 1..Len(Cmds) : IsMaxOfHalf(Cmds[i].val, PrevVal(i), tgt_timer)
        /\ pc = "returned" =>
              /\ Len(Cmds) > 0
              /\ Cmds[Len(Cmds)].val = tgt_timer
              /\ \A i \in 1..(Len(Cmds) - 1) : Cmds[i].val # tgt_timer
        /\ (pc = "returned" /\ start_timer = 42000 /\ tgt_timer = 1000) =>
              CmdVals = <<21000, 10500, 5250, 2625, 1312, 1000>>

C2_Witness ==
    /\ IsTimerOp /\ lockstep /\ pc = "returned"
    /\ start_timer = 42000 /\ tgt_timer = 1000
    /\ CmdVals = <<21000, 10500, 5250, 2625, 1312, 1000>>

\* C3 (as claimed): every change-election-timer command carries a value
\* within a factor of two of the engine's live election timer at the moment
\* of the command, whatever the engine did between the steps.
C3_WithinFactorTwoOfLive ==
    Len(Cmds) > 0 =>
        /\ Cmds[Len(Cmds)].val <= 2 * live_at_cmd.timer
        /\ live_at_cmd.timer <= 2 * Cmds[Len(Cmds)].val

\* C4, first part: the call ends as soon as a status query returns no
\* status, shows the unit not leader, or shows the live timer at the target.
C4_EndsOnStatus ==
    (IsTimerOp /\ calls # <<>> /\ calls[Len(calls)].ev = "cluster_status"
       /\ (~status.present \/ ~status.is_cluster_leader
             \/ status.election_timer = tgt_timer))
    => pc = "returned"

\* C4, second part: in lockstep the number of commands never exceeds
\* ceil(log2(max(target/current, current/target))), another command is due
\* only below that number, and the call returns with the timer at the target.
C4_LockstepBound ==
    (IsTimerOp /\ lockstep /\ start_timer # 0) =>
        /\ Len(Cmds) <= CeilLog2Ratio(start_timer, tgt_timer)
        /\ pc = "cmd" => Len(Cmds) < CeilLog2Ratio(start_timer, tgt_timer)
        /\ pc = "returned" => status.election_timer = tgt_timer

\* C4: configure_ovsdb_election_timer terminates: it ends on the first
\* status query that shows the target reached, the unit not leader or no
\* status; and when the engine applies every commanded change before the
\* next query, it ends, with the timer at the target, after at most
\* ceil(log2(ratio)) commands.
C4_Terminates ==
    /\ [](C4_EndsOnStatus /\ C4_LockstepBound)
    /\ (pc = "status0") ~> (pc \in {"returned", "raised"} \/ ~lockstep)

C4_Witness ==
    /\ IsTimerOp /\ lockstep /\ pc = "returned"
    /\ start_timer = 1500 /\ tgt_timer = 60000
    /\ Len(Cmds) = 6
    /\ status.election_timer = 60000

\* C5: a change-election-timer command is issued only on a status that was
\* returned, shows the unit leader and shows a timer other than the target,
\* and that status comes from the query made right before the command; a
\* first query that shows anything else ends the call with no command, no
\* exception and no error message.
C5_CommandOnlyOnLeaderStatus ==
    IsTimerOp =>
        /\ (pc = "cmd" \/ (Len(Cmds) > 0 /\ pc \in {"sleep", "status", "raised"}))
              => /\ status.present
                 /\ status.is_cluster_leader
                 /\ status.election_timer # tgt_timer
        /\ \A i \in 1..Len(calls) :
              IsChange(calls[i]) =>
                 /\ i > 2
                 /\ calls[i - 1].ev = "status_set"
                 /\ calls[i - 2].ev = "cluster_status"
                 /\ calls[i - 2].db = calls[i].db
        /\ (Len(calls) = 1
              /\ (~status.present \/ ~status.is_cluster_leader
                    \/ status.election_timer = tgt_timer))
              => (pc = "returned" /\ raised = "" /\ ~log_error)

C5_Witness ==
    /\ IsTimerOp /\ pc = "sleep" /\ Len(Cmds) = 2
    /\ status.present /\ status.is_cluster_leader

\* C6 (as claimed): once the unit has lost the cluster leadership, also
\* between a status query and the command that follows it, the call issues
\* no command: every command is sent while the unit is the leader.
C6_NoCommandAfterLeadershipLoss ==
    (IsTimerOp /\ Len(Cmds) > 0) => live_at_cmd.leader

\* C7: a database other than nb / sb raises ValueError, a target below 1 s
\* or above 60 s logs an error and returns; both make no external
\* invocation and set no target.  Every target from 1 to 60, the bounds
\* included, is accepted unchanged.
C7_InvalidArgumentsRejected ==
    IsTimerOp =>
        /\ db \notin {"nb", "sb"} =>
              (pc = "raised" /\ raised = "ValueError" /\ calls = <<>>
                 /\ tgt_timer = 0)
        /\ (db \in {"nb", "sb"} /\ (tgt_secs < 1 \/ tgt_secs > 60)) =>
              (pc = "returned" /\ log_error /\ raised = "" /\ calls = <<>>
                 /\ tgt_timer = 0)
        /\ (db \in {"nb", "sb"} /\ tgt_secs >= 1 /\ tgt_secs <= 60) =>
              (tgt_timer = 1000 * tgt_secs /\ ~log_error /\ raised # "ValueError"
                 /\ pc # "idle")

C7_Witness ==
    /\ IsTimerOp /\ db = "sb" /\ tgt_secs = 61
    /\ pc = "returned" /\ log_error /\ calls = <<>>

\* The number of change commands among the first i invocations.
CmdIndex(i) == Len(SelectSeq(SubSeq(calls, 1, i), IsChange))

\* C8: every change-election-timer command is followed at once by a sleep
\* of current + next ms ((current + next) / 1000 s), current being the value
\* before the step; the next invocation after that sleep is a status query,
\* so no two commands follow each other without the pause and a fresh query.
C8_SleepAfterEveryCommand ==
    IsTimerOp =>
        \A i \in 1..Len(calls) :
           IsChange(calls[i]) =>
              /\ i = Len(calls) => pc \in {"sleep", "raised"}
              /\ i < Len(calls) =>
                    /\ calls[i + 1].ev = "sleep"
                    /\ calls[i + 1].val = PrevVal(CmdIndex(i)) + calls[i].val
              /\ i + 1 < Len(calls) => calls[i + 2].ev = "cluster_status"

C8_Witness ==
    /\ IsTimerOp /\ Len(Cmds) = 5
    /\ calls[Len(calls)].ev = "sleep"
    /\ calls[Len(calls)].val = 2625 + 1312

\* ---- administrative commands and their basis ----------------------------
IsKick(c) == c.ev = "ovn_appctl" /\ c.cmd = "cluster/kick"

IsJoin(c) == c.ev = "run" /\ c.cmd = "join-cluster"

\* The database a command addresses, as the name cluster_status is asked for.
AddressedDb(c) ==
    IF c.ev = "ovn_appctl" THEN c.db
    ELSE IF c.schema = "OVN_Northbound" THEN "ovnnb_db"
    ELSE IF c.schema = "OVN_Southbound" THEN "ovnsb_db"
    ELSE "none"

\* Some status query for the database of calls[i] was made before calls[i].
CheckedBefore(i) ==
    \E j \in 1..(i - 1) :
       calls[j].ev = "cluster_status" /\ calls[j].db = AddressedDb(calls[i])

\* The invocation made last is an administrative command: every command is
\* the last one in the state right after it was issued, and `status` then
\* still holds what the unit knew when it issued it.
LastCall == calls[Len(calls)]

LastIsAdmin ==
    calls # <<>> /\ (IsKick(LastCall) \/ IsJoin(LastCall) \/ IsChange(LastCall))

\* C9 (as claimed): cluster/kick, ovsdb-tool join-cluster and
\* cluster/change-election-timer are issued only by a unit that has queried
\* the cluster status of that database and whose latest status shows
\* is_cluster_leader.
C9_AdminCommandsOnlyByLeader ==
    LastIsAdmin =>
       (CheckedBefore(Len(calls)) /\ status.present /\ status.is_cluster_leader)

\* C9 (amended): cluster/change-election-timer is issued only after a status
\* query for the same database, the latest of which shows is_cluster_leader;
\* cluster/kick and ovsdb-tool join-cluster are issued with no status query
\* at all, whether or not the unit is the cluster leader.
C9_OnlyTimerChangeChecksLeader ==
    LastIsAdmin =>
       IF IsChange(LastCall)
       THEN CheckedBefore(Len(calls)) /\ status.present /\ status.is_cluster_leader
       ELSE /\ \A j \in 1..Len(calls) : calls[j].ev # "cluster_status"
            /\ ~status.present

C9_Witness ==
    /\ op = "_kick_server" /\ pc = "returned"
    /\ Len(calls) = 1 /\ IsKick(calls[1])
    /\ ~engine.leader /\ ~live_at_cmd.leader

\* The writes of the running operation: listener creation and update, and
\* the election-timer change.
Writes == SelectSeq(calls, LAMBDA c : IsWrite(c) \/ IsChange(c))

MutatesOnStatus ==
    /\ op \in {"configure_ovn_listener", "configure_ovsdb_election_timer"}
    /\ Len(Writes) > 0

\* C10 (as claimed): no election-timer change and no listener creation or
\* update is made on a status snapshot whose status field is anything other
\* than 'cluster member'.
C10_WritesOnlyAsClusterMember ==
    (MutatesOnStatus /\ pc \in {"sleep", "status", "raised", "returned"}
       /\ calls[Len(calls)].ev # "cluster_status")
    => status.status = "cluster member"

\* C10 (amended): an election-timer change and a listener creation or update
\* are made only on a status snapshot that is present and shows
\* is_cluster_leader; the status field of the snapshot is not consulted.
C10_WritesOnlyOnLeaderSnapshot ==
    (MutatesOnStatus /\ pc \in {"sleep", "status", "raised", "returned"}
       /\ calls[Len(calls)].ev # "cluster_status")
    => (status.present /\ status.is_cluster_leader)

C10_Witness ==
    /\ op = "configure_ovn_listener" /\ pc = "returned"
    /\ \E i \in 1..Len(calls) : calls[i].ev = "run"
    /\ \E i \in 1..Len(calls) : calls[i].ev = "set"
    /\ status.present /\ status.is_cluster_leader
    /\ status.status = "leaving cluster"

\* ---- join_cluster ----
\* The paths join_cluster can build for the database file f.
JoinPaths(f) == { AbsolutePath(r, f) : r \in Releases }

\* One call of join_cluster for the file named by db': with the file on
\* disk nothing is run and the files stay as they are; without it the tool
\* is run once, on that path, with the schema and the local and then the
\* remote connection strings, and only a successful run creates the file.
JoinStep ==
    \E path \in JoinPaths(db') :
       IF path \in db_files
       THEN calls' = calls /\ db_files' = db_files /\ joined' = joined
       ELSE /\ Len(calls') = Len(calls) + 1
            /\ SubSeq(calls', 1, Len(calls)) = calls
            /\ LET c == calls'[Len(calls')] IN
                  /\ IsJoin(c) /\ c.db = "ovsdb-tool" /\ c.arg = path
                  /\ \E f \in JoinFiles : f[1] = db' /\ c.schema = f[2]
                  /\ \E l \in LocalConns, r \in RemoteConns : c.args = l \o r
            /\ \/ pc' = "returned" /\ db_files' = db_files \cup {path}
                  /\ joined' = Append(joined, path)
               \/ pc' = "raised" /\ db_files' = db_files /\ joined' = joined

\* C12: join_cluster is idempotent on the database file: with the file on
\* disk it runs nothing and leaves the file alone, without it it runs
\* ovsdb-tool join-cluster once with the path, the schema, the local and
\* then the remote connection strings; over any sequence of calls the tool
\* succeeds at most once per database file.
C12_JoinIdempotent ==
    /\ [][op' = "join_cluster" => JoinStep]_vars
    /\ [](op = "join_cluster" =>
            /\ \A i, j \in 1..Len(joined) : joined[i] = joined[j] => i = j
            /\ \A i \in 1..Len(joined) : joined[i] \in db_files)

C12_Witness ==
    /\ op = "join_cluster" /\ pc = "returned"
    /\ Len(calls) = 3
    /\ joined = <<"/var/lib/ovn/ovnsb_db.db">>
    /\ calls[3].arg = "/var/lib/ovn/ovnsb_db.db"
    /\ calls[3].args = <<"ssl:10.0.0.1:6643", "ssl:10.0.0.2:6643",
                         "ssl:10.0.0.3:6643">>

\* ---- wait_for_server_leave ----
IsWaitOp == op = "wait_for_server_leave"

\* wait_for_server_leave has returned (to the action or to its handler).
WaitReturned == op = "wait_for_server_leave" /\ pc = "returned"

Queries(ovn_db) ==
    SelectSeq(calls, LAMBDA c : c.ev = "cluster_status" /\ c.db = ovn_db)

Sleeps == SelectSeq(calls, LAMBDA c : c.ev = "sleep")

\* The address inside a connection string: what lies between the scheme
\* and the port.
IpPortion(url) == Join(":", SubSeq(Split(url), 2, Len(Split(url)) - 1))

\* The snapshot st lists a server whose address is ip.
ListsAddress(st, ip) ==
    \E i \in 1..Len(st.servers) : IpPortion(st.servers[i].url) = ip

CeilDiv(a, b) == (a + b - 1) \div b

\* C13 (as claimed): wait_for_server_leave never raises, also when a poll
\* finds the status of a cluster unavailable: it ends by returning a
\* boolean.
C13_WaitNeverRaises ==
    IsWaitOp => (pc # "raised" /\ raised = "")

\* C14: wait_for_server_leave returns True only if the latest snapshot it
\* obtained from the Southbound cluster and the latest it obtained from the
\* Northbound cluster both list no server at the address; never while one
\* cluster listed the address in every poll of the call.
C14_TrueOnlyWhenBothCleared ==
    (WaitReturned /\ servers_left) =>
        /\ sb_status.present /\ ~ListsAddress(sb_status, server_ip)
        /\ nb_status.present /\ ~ListsAddress(nb_status, server_ip)
        /\ ~sb_always_listed /\ ~nb_always_listed

C14_Witness ==
    /\ op = "wait_for_server_leave" /\ pc = "returned" /\ servers_left
    /\ server_ip = "10.0.0.1"
    /\ rounds = 3
    /\ Len(Queries("ovnsb_db")) = 1 /\ Len(Queries("ovnnb_db")) = 3

\* A step that queries the cluster status of ovn_db.
QueryStep(ovn_db) ==
    Len(SelectSeq(calls', LAMBDA c : c.ev = "cluster_status" /\ c.db = ovn_db))
       > Len(Queries(ovn_db))

\* C15: once a poll shows that a cluster no longer lists the address that
\* cluster is not queried again during the call, while the other cluster
\* is polled once in every round until it clears as well or the deadline
\* expires.
C15_ClearedClusterNotPolledAgain ==
    /\ [][IsWaitOp =>
            /\ QueryStep("ovnsb_db") => (unit_in_sb_cluster /\ sb_always_listed)
            /\ QueryStep("ovnnb_db") => (unit_in_nb_cluster /\ nb_always_listed)]_vars
    /\ [](IsWaitOp =>
            /\ Len(Queries("ovnsb_db")) <= rounds
            /\ Len(Queries("ovnnb_db")) <= rounds
            /\ (pc \in {"w_nb", "w_check"} /\ sb_always_listed)
                  => Len(Queries("ovnsb_db")) = rounds
            /\ (pc = "w_check" /\ nb_always_listed)
                  => Len(Queries("ovnnb_db")) = rounds)

C15_Witness ==
    /\ op = "wait_for_server_leave" /\ pc = "returned" /\ ~servers_left
    /\ timeout = 30 /\ rounds = 6
    /\ ~unit_in_nb_cluster /\ unit_in_sb_cluster
    /\ Len(Queries("ovnnb_db")) = 2 /\ Len(Queries("ovnsb_db")) = 6

\* C16: wait_for_server_leave returns True in the round in which the last
\* cluster clears, with no sleep and no status query after that poll; when
\* neither cluster lists the address in the first round it returns True
\* after one query of Southbound, one of Northbound and no sleep.
C16_EarlyExit ==
    IsWaitOp =>
        /\ (pc = "w_loop") => (unit_in_sb_cluster \/ unit_in_nb_cluster)
        /\ (WaitReturned /\ servers_left) =>
              /\ Len(Sleeps) = rounds - 1
              /\ calls[Len(calls)].ev = "cluster_status"
              /\ timer = (rounds - 1) * tick
        /\ (WaitReturned /\ servers_left /\ rounds = 1) =>
              calls = <<EvStatus("ovnsb_db"), EvStatus("ovnnb_db")>>
        /\ (WaitReturned /\ ~servers_left /\ rounds > 0) =>
              (unit_in_sb_cluster \/ unit_in_nb_cluster)

C16_Witness ==
    /\ op = "wait_for_server_leave" /\ pc = "returned" /\ servers_left
    /\ timeout = 30 /\ rounds = 1 /\ Sleeps = <<>>
    /\ calls = <<EvStatus("ovnsb_db"), EvStatus("ovnnb_db")>>

\* C17 (as claimed): for every timeout >= 0 the sleeps of
\* wait_for_server_leave add up to at most timeout seconds.
C17_SleepsWithinTimeout ==
    IsWaitOp => Len(Sleeps) * tick <= timeout

\* C17 (amended): the call makes at most ceil(timeout / 5) rounds, each
\* followed by at most one sleep of 5 s, so the sleeps add up to at most
\* 5 * ceil(timeout / 5) seconds: at most timeout when timeout is a
\* multiple of 5, and less than timeout + 5 otherwise.  With timeout 30 and
\* a server that never leaves it makes 6 rounds, each querying Southbound,
\* then Northbound, then sleeping, and returns False.
C17_RoundsWithinTimeout ==
    IsWaitOp =>
        /\ rounds <= CeilDiv(timeout, tick)
        /\ Len(Sleeps) <= rounds
        /\ \A i \in 1..Len(Sleeps) : Sleeps[i].val = tick * 1000
        /\ Len(Sleeps) * tick <= tick * CeilDiv(timeout, tick)
        /\ (timeout % tick = 0) => Len(Sleeps) * tick <= timeout
        /\ (WaitReturned /\ timeout = 30 /\ sb_always_listed /\ nb_always_listed) =>
              /\ rounds = 6 /\ ~servers_left
              /\ Len(calls) = 18
              /\ \A k \in 0..5 :
                    /\ calls[3 * k + 1] = EvStatus("ovnsb_db")
                    /\ calls[3 * k + 2] = EvStatus("ovnnb_db")
                    /\ calls[3 * k + 3] = EvSleep(5000)

C17_Witness ==
    /\ op = "wait_for_server_leave" /\ pc = "returned" /\ ~servers_left
    /\ timeout = 12 /\ rounds = 3 /\ Len(Sleeps) = 3 /\ timer = 15

\* ---- leave_cluster ----
IsLeave(c) == c.ev = "ovn_appctl" /\ c.cmd = "cluster/leave"

Leaves == SelectSeq(calls, IsLeave)

LeaveSb == EvAppctl("ovnsb_db", "cluster/leave", "OVN_Southbound", 0, "")

LeaveNb == EvAppctl("ovnnb_db", "cluster/leave", "OVN_Northbound", 0, "")

\* C18 (as claimed): leave_cluster always attempts cluster/leave on the
\* Southbound and then on the Northbound database, once each: whatever
\* happens to the Southbound attempt, the call ends with both attempts
\* made.
C18_BothLeavesAttempted ==
    (op = "leave_cluster" /\ pc \in {"returned", "raised"}) =>
        Leaves = <<LeaveSb, LeaveNb>>

\* C19 (as claimed): leave_cluster never raises, whatever the outcome of
\* its two cluster/leave commands.
C19_LeaveNeverRaises ==
    op = "leave_cluster" => (pc # "raised" /\ raised = "")

\* ---- the reactive handlers ----
UpgradeFlags == {"coordinator.requested.upgrade", "coordinator.granted.upgrade"}

UpgradeHeld == flags \cap UpgradeFlags # {}

\* The entries a step adds to hlog.
NewCalls == SubSeq(hlog', Len(hlog) + 1, Len(hlog'))

HasCall(sq, fns) == \E i \in 1..Len(sq) : sq[i].fn \in fns

\* C11 (as claimed): while coordinator.requested.upgrade or
\* coordinator.granted.upgrade is set, no dispatched handler invokes
\* join_cluster, leave_cluster, wait_for_server_leave or the election-timer
\* change.
C11_UpgradeSuppressesMembershipOps ==
    [][UpgradeHeld =>
          ~HasCall(NewCalls, {"join_cluster", "leave_cluster", "wait_for_server_leave",
                              "configure_ovsdb_election_timer"})]_vars

\* C11 (amended): while an upgrade flag is set, no dispatched handler
\* invokes join_cluster or the election-timer change (render and
\* announce_leader_ready are not dispatched); leave_cluster and
\* wait_for_server_leave are invoked by handle_cluster_downscale alone,
\* which is dispatched whenever endpoint.ovsdb-peer.departed is set, the
\* upgrade flags notwithstanding.
C11_UpgradeSuppressesJoinAndTimer ==
    [][/\ UpgradeHeld =>
            ~HasCall(NewCalls, {"join_cluster", "configure_ovsdb_election_timer"})
       /\ \A i \in 1..Len(NewCalls) :
            NewCalls[i].fn \in {"leave_cluster", "wait_for_server_leave"} =>
                /\ NewCalls[i].h = "handle_cluster_downscale"
                /\ "endpoint.ovsdb-peer.departed" \in flags]_vars

\* An upgrade flag has been set since the dispatch began (nothing in the
\* dispatch could have set it), the prerequisites of render hold, and the
\* one handler that ran is handle_cluster_downscale, which called
\* leave_cluster.
C11_Witness ==
    /\ op = "reactive"
    /\ UpgradeHeld
    /\ flags \cap {"config.changed.source", "config.changed.ovn-source"} = {}
    /\ ReadyToRender \subseteq flags
    /\ Len(Dispatches) = 1
    /\ HasCall(hlog, {"leave_cluster"})
    /\ ~HasCall(hlog, {"join_cluster", "configure_ovsdb_election_timer"})

DownscaleDispatches ==
    SelectSeq(hlog, LAMBDA e : e.h = "handle_cluster_downscale" /\ e.fn = "dispatch")

CallsOf(fn) == SelectSeq(hlog, LAMBDA e : e.fn = fn)

\* C20 (as claimed): on the departing unit, however often
\* handle_cluster_downscale has been invoked, leave_cluster has been
\* called exactly once and ovsdb-peer.left_cluster is set after it, and
\* wait_for_server_leave has not been called.
C20_DepartingUnitLeavesOnce ==
    (/\ op = "reactive"
     /\ DownscaleDispatches # <<>>
     /\ \A i \in 1..Len(DownscaleDispatches) : DownscaleDispatches[i].arg = local_unit)
    => /\ Len(CallsOf("leave_cluster")) = 1
       /\ "ovsdb-peer.left_cluster" \in flags
       /\ CallsOf("wait_for_server_leave") = <<>>

IsRemainingUnit ==
    /\ op = "reactive"
    /\ DownscaleDispatches # <<>>
    /\ \A i \in 1..Len(DownscaleDispatches) : DownscaleDispatches[i].arg # local_unit

DepartureLogs ==
    SelectSeq(logs, LAMBDA e :
        \/ e = EvLog("INFO", "successfully disconnected from cluster")
        \/ e = EvLog("WARNING", "failed to remove itself from cluster"))

\* C21 (as claimed): on a remaining unit every invocation of
\* handle_cluster_downscale has called wait_for_server_leave with the
\* departing unit's bound address and then configure_firewall once, with
\* one INFO or WARNING message; leave_cluster is not called and
\* ovsdb-peer.left_cluster is not set.
C21_RemainingUnitWaitsThenFirewall ==
    IsRemainingUnit =>
        /\ Len(CallsOf("wait_for_server_leave")) = Len(DownscaleDispatches)
        /\ \A i \in 1..Len(DownscaleDispatches) :
              CallsOf("wait_for_server_leave")[i].arg
                  = BoundAddress(DownscaleDispatches[i].arg)
        /\ Len(CallsOf("configure_firewall")) = Len(DownscaleDispatches)
        /\ Len(DepartureLogs) = Len(DownscaleDispatches)
        /\ CallsOf("leave_cluster") = <<>>
        /\ "ovsdb-peer.left_cluster" \notin flags

\* ---- the actions ----
KickSb(id) == EvAppctl("ovnsb_db", "cluster/kick", "OVN_Southbound", 0, id)

KickNb(id) == EvAppctl("ovnnb_db", "cluster/kick", "OVN_Northbound", 0, id)

\* C22: _kick_server with a cluster name that is neither 'southbound' nor
\* 'northbound' in any letter case (here 'foo') raises ValueError and
\* issues no command; with a valid name it issues exactly one
\* cluster/kick, on ovnsb_db with OVN_Southbound or on ovnnb_db with
\* OVN_Northbound, carrying the server id given, however the command ends.
C22_KickServerValidatesCluster ==
    (op = "_kick_server" /\ pc \in {"returned", "raised"}) =>
        /\ db = "foo" => (pc = "raised" /\ raised = "ValueError" /\ calls = <<>>)
        /\ db = "southbound" =>
              (calls = <<KickSb(given_server_id)>> /\ raised # "ValueError")
        /\ db = "Northbound" =>
              (calls = <<KickNb(given_server_id)>> /\ raised # "ValueError")

C22_Witness ==
    /\ op = "_kick_server" /\ pc = "returned" /\ db = "Northbound"
    /\ given_server_id = "zz99" /\ calls = <<KickNb("zz99")>>

KicksOn(ovn_db) ==
    SelectSeq(calls, LAMBDA c : c.ev = "ovn_appctl" /\ c.cmd = "cluster/kick"
                                /\ c.db = ovn_db)

NoId(param) == ~param.given \/ param.val = ""

KickEnded == op = "cluster_kick" /\ pc \in {"returned", "raised"}

\* C23: cluster-kick with neither sb-server-id nor nb-server-id supplied
\* (left out or empty) calls action_fail with 'At least one server ID to
\* kick must be specified.', issues no kick command and sets no result.
C23_KickWithoutIdRejected ==
    (KickEnded /\ NoId(action_params.sb) /\ NoId(action_params.nb)) =>
        /\ pc = "returned"
        /\ results = <<ActionFail("At least one server ID to kick must be specified.",
                                  "", "")>>
        /\ calls = <<>>

C23_Witness ==
    /\ KickEnded
    /\ action_params = [sb |-> NotSupplied, nb |-> Supplied("")]
    /\ Len(results) = 1 /\ results[1].fn = "action_fail"

ResultsFor(id) == SelectSeq(results, LAMBDA r : r.id = id)

\* C24 (as claimed): cluster_kick makes exactly one kick attempt for each
\* server id supplied and none for an id not supplied, whatever happens to
\* the other attempt; each attempt is reported once, with action_set when
\* it succeeds and with action_fail naming the id when it fails.
C24_OneAttemptPerSuppliedId ==
    (KickEnded /\ ~(NoId(action_params.sb) /\ NoId(action_params.nb))) =>
        /\ KicksOn("ovnsb_db") =
              (IF NoId(action_params.sb) THEN <<>> ELSE <<KickSb(action_params.sb.val)>>)
        /\ KicksOn("ovnnb_db") =
              (IF NoId(action_params.nb) THEN <<>> ELSE <<KickNb(action_params.nb.val)>>)
        /\ Len(results) = Len(calls)
        /\ ~NoId(action_params.sb) => Len(ResultsFor(action_params.sb.val)) = 1
        /\ ~NoId(action_params.nb) => Len(ResultsFor(action_params.nb.val)) = 1

\* C29: _url_to_ip('ssl:' + a + ':' + p) returns exactly a for every valid
\* IPv4 or IPv6 address a and every port p; when the part between the
\* scheme and the port is not a valid address it raises
\* StatusParsingException and returns nothing.
C29_UrlToIpRoundTrips ==
    op = "_url_to_ip" =>
        IF fn_arg.address \in ValidIps
        THEN pc = "returned" /\ fn_ret = [raised |-> "", val |-> fn_arg.address]
        ELSE pc = "raised" /\ raised = "StatusParsingException" /\ fn_ret.val = ""

C29_Witness ==
    /\ op = "_url_to_ip" /\ pc = "returned"
    /\ fn_arg.cluster_url = "ssl:fe80::1:2:16642"
    /\ fn_ret.val = "fe80::1:2"

\* Some server of the snapshot st has a connection string whose embedded
\* address, as _url_to_ip extracts it, is ip.
SomeServerAt(st, ip) ==
    \E i \in 1..Len(st.servers) :
        url_to_ip(st.servers[i].url) = [raised |-> "", val |-> ip]

\* C28 (as claimed): is_server_in_cluster(ip, status) is true if and only
\* if some entry of status.servers has a connection string whose embedded
\* address equals ip: what wait_for_server_leave keeps of each poll agrees
\* with the addresses of the snapshot polled.
C28_InClusterIffAddressListed ==
    IsWaitOp =>
        /\ sb_status.present =>
              (unit_in_sb_cluster <=> SomeServerAt(sb_status, server_ip))
        /\ nb_status.present =>
              (unit_in_nb_cluster <=> SomeServerAt(nb_status, server_ip))

\* The servers of the call whose address some unit of the table has.
MatchedServers ==
    SelectSeq(fn_arg.servers, LAMBDA sv :
        \E i \in 1..Len(fn_arg.cluster_ip_map) :
            fn_arg.cluster_ip_map[i].ip = IpPortion(sv.url))

\* C30 (as claimed): for a status with N servers of which M have an
\* address present in the unit-to-IP table, unit_map holds M unit-keyed
\* entries and exactly N - M server ids under 'UNKNOWN' (the key absent
\* when N = M), and no server id of the status is missing from unit_map.
C30_EveryServerAccountedFor ==
    (op = "_format_cluster_status" /\ pc = "returned") =>
        LET N == Len(fn_arg.servers)
            M == Len(MatchedServers)
            unit_map == fn_ret.val
        IN /\ Len(unit_map.mapped_servers) = M
           /\ Len(unit_map.UNKNOWN) = N - M
           /\ unit_map.has_unknown <=> N # M
           /\ \A i \in 1..N :
                 \/ \E j \in 1..Len(unit_map.mapped_servers) :
                       unit_map.mapped_servers[j].id = fn_arg.servers[i].id
                 \/ \E j \in 1..Len(unit_map.UNKNOWN) :
                       unit_map.UNKNOWN[j] = fn_arg.servers[i].id

\* -------------------------------------------------------------------------
\* C27: BaseOVNCentralCharm.cluster_status never raises when the control
\* command exits non-zero or the control socket cannot be located: it
\* returns None in both cases and the parsed status otherwise, and it
\* changes no charm or cluster state: the query is its only invocation.
\* -------------------------------------------------------------------------
C27_ClusterStatusNeverRaises ==
    [][(op' = "cluster_status" /\ op # "cluster_status"
        /\ fn_arg'.outcome \in {"ok", "CalledProcessError", "ValueError"}) =>
          /\ pc' = "returned" /\ raised' = ""
          /\ fn_ret'.val = IF fn_arg'.outcome = "ok"
                           THEN [present |-> TRUE, servers |-> fn_arg'.servers]
                           ELSE NoServers
          /\ calls' = Append(calls, EvStatus(fn_arg'.db))
          /\ UNCHANGED <<engine, db_files, connections, joined, flags, results>>]_vars

C27_Witness ==
    /\ op = "cluster_status" /\ pc = "returned"
    /\ fn_arg.outcome = "ValueError"
    /\ fn_ret.val = NoServers
    /\ Len(logs) = 1 /\ logs[1].level = "DEBUG"

\* -------------------------------------------------------------------------
\* C25: every run of main for cluster-status or cluster-kick returns
\* without raising and has reported a result, at least one action_set or
\* action_fail call, whatever the peer relation, the status of either
\* database (None included), the addresses parsed and the commands do.
\* -------------------------------------------------------------------------
C25_MainAlwaysReports ==
    (op = "main" /\ fn_arg.action_name \in {"cluster-status", "cluster-kick"}) =>
        /\ pc = "returned" /\ raised = ""
        /\ Len(results) >= 1
        /\ \A i \in 1..Len(results) : results[i].fn \in {"action_set", "action_fail"}

C25_Witness ==
    /\ op = "main" /\ pc = "returned"
    /\ fn_arg.action_name = "cluster-status" /\ fn_arg.peer
    /\ fn_arg.o_sb = "ok" /\ fn_arg.o_nb = "CalledProcessError"
    /\ Len(calls) = 2
    /\ results = <<ActionFail("AttributeError", "", "")>>

\* -------------------------------------------------------------------------
\* C26: passive reconciliation never fails on a database that is not
\* ready: a run of announce_leader_ready that has asked for the status of
\* the clusters completes without raising, also when cluster_status
\* returned None.
\* -------------------------------------------------------------------------
QueriedByAnnounce ==
    /\ op = "reactive" /\ hlog # <<>>
    /\ hlog[Len(hlog)].h = "announce_leader_ready"
    /\ hlog[Len(hlog)].fn \in {"cluster_status", "leader_set"}

C26_NotReadyNeverFailsHandler ==
    QueriedByAnnounce => (pc # "raised" /\ raised = "")

\* -------------------------------------------------------------------------
\* C31 (as claimed): the unit map is keyed by cluster member id: the servers
\* aa11 at 10.0.0.1, bb22 at 10.0.0.2 and zz99 at 10.0.0.99 against the
\* table of ovn-central/0 at .1 and ovn-central/1 at .2 yield
\* {aa11: ovn-central/0, bb22: ovn-central/1, UNKNOWN: [zz99]}.
\* -------------------------------------------------------------------------
\* d.get(k) of the dict mapped_servers, "" for no such key
DictGet(d, k) ==
    IF \E i \in 1..Len(d) : d[i].unit = k
    THEN d[CHOOSE i \in 1..Len(d) : d[i].unit = k].id
    ELSE ""

UnitMapExample ==
    /\ op = "_format_cluster_status" /\ pc = "returned"
    /\ fn_arg.servers = <<SrvA, SrvB, SrvF>>
    /\ fn_arg.cluster_ip_map = <<[unit |-> "ovn-central/0", ip |-> "10.0.0.1"],
                                 [unit |-> "ovn-central/1", ip |-> "10.0.0.2"]>>

C31_UnitMapKeyedByMemberId ==
    UnitMapExample =>
        /\ DictGet(fn_ret.val.mapped_servers, "aa11") = "ovn-central/0"
        /\ DictGet(fn_ret.val.mapped_servers, "bb22") = "ovn-central/1"
        /\ fn_ret.val.UNKNOWN = <<"zz99">>

\* C31 (amended): the unit map is keyed by unit: every unit-keyed entry maps
\* a unit to the id of a server whose address is that unit's IP, the ids of
\* the servers whose address no unit has are listed under UNKNOWN in the
\* order of the status, and the example yields
\* {ovn-central/0: aa11, ovn-central/1: bb22, UNKNOWN: [zz99]}.
UnmatchedIds ==
    LET unmatched == SelectSeq(fn_arg.servers, LAMBDA sv :
                        \A i \in 1..Len(fn_arg.cluster_ip_map) :
                            fn_arg.cluster_ip_map[i].ip # IpPortion(sv.url))
    IN [i \in 1..Len(unmatched) |-> unmatched[i].id]

C31_UnitMapKeyedByUnit ==
    (op = "_format_cluster_status" /\ pc = "returned") =>
        /\ \A e \in 1..Len(fn_ret.val.mapped_servers) :
              \E i \in 1..Len(fn_arg.servers), j \in 1..Len(fn_arg.cluster_ip_map) :
                 /\ fn_arg.cluster_ip_map[j].unit = fn_ret.val.mapped_servers[e].unit
                 /\ fn_arg.servers[i].id = fn_ret.val.mapped_servers[e].id
                 /\ fn_arg.cluster_ip_map[j].ip = IpPortion(fn_arg.servers[i].url)
        /\ fn_ret.val.UNKNOWN = UnmatchedIds
        /\ UnitMapExample =>
              /\ DictGet(fn_ret.val.mapped_servers, "ovn-central/0") = "aa11"
              /\ DictGet(fn_ret.val.mapped_servers, "ovn-central/1") = "bb22"
              /\ Len(fn_ret.val.mapped_servers) = 2
              /\ fn_ret.val.UNKNOWN = <<"zz99">>

C31_Witness ==
    /\ UnitMapExample
    /\ fn_ret.val.mapped_servers = <<[unit |-> "ovn-central/0", id |-> "aa11"],
                                     [unit |-> "ovn-central/1", id |-> "bb22"]>>
    /\ fn_ret.val.has_unknown

\* -------------------------------------------------------------------------
\* C32: a server connection string that holds no valid IP makes
\* _format_cluster_status raise StatusParsingException and return no
\* mapping, and the action cluster-status, having obtained both statuses,
\* then calls action_fail once and action_set not at all, also when the
\* status of the other database is well formed.
\* -------------------------------------------------------------------------
HasUnparsable(servers) ==
    \E i \in 1..Len(servers) : IpPortion(servers[i].url) \notin ValidIps

C32_UnparsableAddressFailsLoud ==
    /\ (op = "_format_cluster_status" /\ HasUnparsable(fn_arg.servers)) =>
          /\ pc = "raised" /\ raised = "StatusParsingException"
          /\ fn_ret = [raised |-> "StatusParsingException", val |-> ""]
    /\ (op = "cluster-status" /\ fn_arg.o_sb = "ok" /\ fn_arg.o_nb = "ok"
        /\ (HasUnparsable(fn_arg.sb_servers) \/ HasUnparsable(fn_arg.nb_servers))) =>
          /\ pc = "returned" /\ raised = ""
          /\ Len(results) = 1 /\ results[1].fn = "action_fail"
          /\ results[1].msg = "Failed to parse OVN cluster status."

C32_Witness ==
    /\ op = "cluster-status" /\ pc = "returned"
    /\ fn_arg.o_sb = "ok" /\ fn_arg.o_nb = "ok"
    /\ ~HasUnparsable(fn_arg.sb_servers) /\ HasUnparsable(fn_arg.nb_servers)
    /\ Len(calls) = 2
    /\ results = <<ActionFail("Failed to parse OVN cluster status.", "", "")>>

\* -------------------------------------------------------------------------
\* C33: at the start of every iteration of the convergence loop of
\* configure_ovsdb_election_timer the locally tracked cur_timer, from which
\* the step and the pause are computed, equals the election_timer of the
\* status snapshot just obtained.
\* -------------------------------------------------------------------------
C33_CurTimerTracksSnapshot ==
    (IsTimerOp /\ pc = "cmd") =>
        (status.present /\ cur_timer = status.election_timer)

\* -------------------------------------------------------------------------
\* C34: join_cluster is invoked by the render handler only, and render is
\* dispatched only while leadership.set.nb_cid and leadership.set.sb_cid
\* are set, with ovsdb-peer.available and the certificates connected and
\* available: every join-cluster invocation of a unit comes after the
\* leader has published both cluster ids.
\* -------------------------------------------------------------------------
\* The entries the step appends to hlog.
NewEntries == SubSeq(hlog', Len(hlog) + 1, Len(hlog'))

PublishedIds == {"leadership.set.nb_cid", "leadership.set.sb_cid"}

C34_JoinOnlyAfterIdsPublished ==
    [][\A i \in 1..Len(NewEntries) :
          /\ NewEntries[i].fn = "join_cluster" => NewEntries[i].h = "render"
          /\ NewEntries[i].h = "render" =>
                /\ PublishedIds \subseteq flags
                /\ {"ovsdb-peer.available", "certificates.connected",
                    "certificates.available"} \subseteq flags]_vars

\* The leader publishes the ids, then renders and joins.
C34_Witness ==
    /\ op = "reactive"
    /\ \E i, j \in 1..Len(hlog) :
          /\ i < j
          /\ hlog[i] = HCall("announce_leader_ready", "leader_set", "ready")
          /\ hlog[j] = HCall("render", "join_cluster", "ovnnb_db.db")
    /\ joined # <<>>

\* -------------------------------------------------------------------------
\* C35: cluster bootstrap happens once: initialize_ovsdbs and
\* announce_leader_ready are dispatched only on the leader and only while
\* neither leadership.set.nb_cid nor leadership.set.sb_cid is set; after
\* announce_leader_ready has published ready, nb_cid and sb_cid neither
\* handler is dispatched again and the ids are not published a second time.
\* -------------------------------------------------------------------------
BootstrapHandlers == {"initialize_ovsdbs", "announce_leader_ready"}

Published(log) ==
    SelectSeq(log, LAMBDA e : e = HCall("announce_leader_ready", "leader_set", "ready"))

C35_BootstrapHappensOnce ==
    [][/\ \A i \in 1..Len(NewEntries) :
             NewEntries[i].h \in BootstrapHandlers =>
                /\ "leadership.is_leader" \in flags
                /\ PublishedIds \cap flags = {}
                /\ Published(hlog) = <<>>
       /\ Len(Published(hlog')) <= 1
       /\ Published(hlog) # <<>> => PublishedIds \subseteq flags']_vars

\* The leader has initialized, published, and run a handler after that.
C35_Witness ==
    /\ op = "reactive"
    /\ Len(Published(hlog)) = 1
    /\ PublishedIds \subseteq flags
    /\ hlog[1] = HCall("initialize_ovsdbs", "dispatch", "")
    /\ hlog[Len(hlog)].h = "render"

\* -------------------------------------------------------------------------
\* C36: while endpoint.ovsdb-peer.departed is set the handlers
\* configure_firewall and render are not dispatched; the firewall is then
\* reconfigured only from within handle_cluster_downscale, after
\* wait_for_server_leave has returned.
\* -------------------------------------------------------------------------
C36_NoFirewallBeforeWaitEnds ==
    [][\A i \in 1..Len(NewEntries) :
          /\ NewEntries[i].h \in {"configure_firewall", "render"} =>
                "endpoint.ovsdb-peer.departed" \notin flags
          /\ (NewEntries[i].fn = "configure_firewall"
              /\ "endpoint.ovsdb-peer.departed" \in flags) =>
                /\ NewEntries[i].h = "handle_cluster_downscale"
                /\ i > 1
                /\ NewEntries[i - 1].h = "handle_cluster_downscale"
                /\ NewEntries[i - 1].fn = "wait_for_server_leave"
                /\ raised' = ""]_vars

C36_Witness ==
    /\ op = "reactive" /\ pc = "dispatch"
    /\ "endpoint.ovsdb-peer.departed" \in flags
    /\ Len(hlog) >= 3
    /\ hlog[Len(hlog)] = HCall("handle_cluster_downscale", "configure_firewall", "")
    /\ hlog[Len(hlog) - 1].fn = "wait_for_server_leave"
    /\ \A i \in 1..Len(hlog) : hlog[i].h \notin {"configure_firewall", "render"}

\* -------------------------------------------------------------------------
\* C37: while the unit is paused enable_services resumes no service and
\* returns False, and render then neither calls configure_ovn nor sets
\* config.rendered; when the unit is not paused every service of the list
\* is resumed, configure_ovn is called and config.rendered is set.
\* -------------------------------------------------------------------------
NewEntriesOf(fn) == SelectSeq(NewEntries, LAMBDA e : e.fn = fn)

NewCallsOf(ev) ==
    SelectSeq(SubSeq(calls', Len(calls) + 1, Len(calls')), LAMBDA c : c.ev = ev)

C37_PausedUnitRendersNoListener ==
    [][/\ (op' = "enable_services" /\ op # "enable_services") =>
             IF fn_arg'.check_if_paused # NotPaused
             THEN fn_ret'.val = "False" /\ NewCallsOf("service_resume") = <<>>
             ELSE /\ fn_ret'.val = "True"
                  /\ NewCallsOf("service_resume") =
                        [i \in 1..Len(services(fn_arg'.release)) |->
                            EvServiceResume(services(fn_arg'.release)[i])]
       /\ \A i \in 1..Len(NewEntries) :
             (NewEntries[i].h = "render" /\ NewEntries[i].fn = "enable_services") =>
                IF NewEntries[i].arg = "False"
                THEN /\ NewEntriesOf("service_resume") = <<>>
                     /\ NewEntriesOf("configure_ovn") = <<>>
                     /\ NewEntriesOf("configure_ovn_listener") = <<>>
                     /\ NewEntriesOf("configure_ovsdb_election_timer") = <<>>
                     /\ NewEntriesOf("set_flag") = <<>>
                     /\ flags' = flags
                ELSE /\ NewEntriesOf("service_resume") # <<>>
                     /\ Len(NewEntriesOf("configure_ovn")) = 1
                     /\ NewEntriesOf("set_flag") = <<HCall("render", "set_flag", "config.rendered")>>
                     /\ "config.rendered" \in flags']_vars

\* -------------------------------------------------------------------------
\* C38: configure_ovn_listener writes nothing unless the status of the
\* database is available and shows the cluster leader; as leader it creates
\* a connection for a port only when none with target pssl:<port> exists,
\* once, and then applies the settings to the connection found, so that
\* repeating the call any number of times leaves one connection per port.
\* -------------------------------------------------------------------------
Creates(cs) == SelectSeq(cs, LAMBDA c : c.ev = "run" /\ c.cmd = "create connection")

C38_ListenerCreatedOncePerPort ==
    [][op' = "configure_ovn_listener" =>
          /\ ~(status'.present /\ status'.is_cluster_leader) =>
                /\ \A i \in 1..Len(calls') : ~IsWrite(calls'[i])
                /\ connections' = connections
          /\ \A i \in 1..Len(Creates(calls')) :
                /\ Creates(calls')[i].val \notin connections
                /\ \A j \in 1..Len(Creates(calls')) :
                      i # j => Creates(calls')[i].val # Creates(calls')[j].val
          /\ connections \subseteq connections'
          /\ connections' \subseteq
                connections \cup {Creates(calls')[i].val : i \in 1..Len(Creates(calls'))}
          /\ \A i \in 1..Len(calls') :
                calls'[i].ev = "set" =>
                   /\ calls'[i].val \in connections'
                   /\ \E j \in 1..(i - 1) :
                         calls'[j].ev = "find" /\ calls'[j].val = calls'[i].val
          /\ pc' = "returned" =>
                \A i \in 1..Len(calls') :
                   calls'[i].ev = "find" => calls'[i].val \in connections']_vars

\* A repeated call on the leader: both listeners exist, none is created,
\* the settings are applied again.
C38_Witness ==
    /\ op = "configure_ovn_listener" /\ pc = "returned"
    /\ status.present /\ status.is_cluster_leader
    /\ connections = {6641, 6642}
    /\ Creates(calls) = <<>>
    /\ \E i \in 1..Len(calls) : calls[i].ev = "set" /\ calls[i].val = 6642

\* -------------------------------------------------------------------------
\* C39: in wait_for_server_leave every sleep is followed by another poll
\* of the clusters still pending: the call never returns False directly
\* after a sleep, so that a departure completing during the last sleep is
\* still detected.
\* -------------------------------------------------------------------------
C39_PollAfterEverySleep ==
    (WaitReturned /\ ~servers_left /\ calls # <<>>) =>
        calls[Len(calls)].ev # "sleep"

\* -------------------------------------------------------------------------
\* C40: assess_exporter restarts the exporter service and sets
\* prometheus-ovn-exporter.initialized exactly when a channel is configured
\* and either the snap was not installed before the call or the flag was not
\* set; between two restarts the snap was found missing or was removed, so
\* with a channel and the snap staying installed there is at most one
\* restart.  With no channel it never installs, refreshes or restarts, and
\* it removes the snap and clears the flag if and only if the snap was
\* installed.
\* -------------------------------------------------------------------------
SnapCmds(cs, cmd) == SelectSeq(cs, LAMBDA c : c.ev = "snap" /\ c.cmd = cmd)

Restarts(cs) == SelectSeq(cs, LAMBDA c : c.ev = "service_restart")

SnapWentAway(c) ==
    /\ c.ev = "snap"
    /\ \/ c.cmd = "remove"
       \/ c.cmd = "is_installed" /\ c.arg = "False"

C40_ExporterRestartedOnce ==
    [][(op' = "assess_exporter" /\ calls' # calls) =>
          LET new == SubSeq(calls', Len(calls) + 1, Len(calls'))
              channel == ovn_exporter_snap_channel(fn_arg'.ovn_exporter_channel)
              fresh == ~snap_installed \/ ExporterInitialized \notin flags
          IN /\ channel # NoChannel =>
                   /\ Len(Restarts(new)) = (IF fresh THEN 1 ELSE 0)
                   /\ \A i \in 1..Len(Restarts(new)) :
                         Restarts(new)[i].cmd = exporter_service
                   /\ fresh => ExporterInitialized \in flags'
                   /\ ~fresh => flags' = flags
                   /\ Len(SnapCmds(new, "install")) = (IF snap_installed THEN 0 ELSE 1)
                   /\ Len(SnapCmds(new, "refresh")) = (IF snap_installed THEN 1 ELSE 0)
                   /\ SnapCmds(new, "remove") = <<>>
                   /\ snap_installed'
             /\ channel = NoChannel =>
                   /\ SnapCmds(new, "install") = <<>>
                   /\ SnapCmds(new, "refresh") = <<>>
                   /\ Restarts(new) = <<>>
                   /\ Len(SnapCmds(new, "remove")) = (IF snap_installed THEN 1 ELSE 0)
                   /\ snap_installed => (ExporterInitialized \notin flags' /\ ~snap_installed')
                   /\ ~snap_installed => (flags' = flags /\ ~snap_installed')
             /\ \A i, j \in 1..Len(calls') :
                   (i < j /\ calls'[i].ev = "service_restart"
                          /\ calls'[j].ev = "service_restart") =>
                      \E k \in (i + 1)..(j - 1) : SnapWentAway(calls'[k])]_vars

\* The snap layer installed the snap while the flag was still set, a call
\* with a track and a risk level refreshed it without a restart, and the
\* only restart of the behaviour is the one of the first call.
C40_Witness ==
    /\ op = "assess_exporter" /\ pc = "returned"
    /\ fn_arg.ovn_exporter_channel = "0.10/edge"
    /\ Len(AssessCalls(calls)) = 3
    /\ Len(Restarts(calls)) = 1
    /\ calls[Len(calls) - 1] = EvSnap("refresh", "edge")
    /\ calls[Len(calls)] = EvSnap("connect_all", "")
    /\ ExporterInitialized \in flags
====
